---- MODULE Spec2Model ----
(***************************************************************************)
(* A model of the p3-utils multi-table STARK machine: the permutation      *)
(* (log-derivative bus) argument of src/src/chip.rs, the debug row checks, *)
(* the constraint folders of src/machine/src/folder.rs and the verifier's  *)
(* quotient recomposition of src/machine/src/verify.rs.                    *)
(*                                                                         *)
(* The base field Val<SC> is instantiated as F_P and the challenge field   *)
(* SC::Challenge as F_P[X]/(X^2 - W), an element a + b*X being <<a, b>>.   *)
(* Option<T> is a sequence of length 0 (None) or 1 (Some).                 *)
(***************************************************************************)
EXTENDS Integers, Sequences, FiniteSets, TLC

VARIABLES
    chips,            \* the machine's chips: traces and declared interactions
    random_elements,  \* the permutation challenges <<random_elements[0], random_elements[1]>>
    perms,            \* per chip: Option of the permutation trace
    rowres,           \* the rows check_constraints has evaluated, with their builders
    cumsum,           \* outcome of check_cumulative_sums
    folder,           \* the prover and verifier constraint folders
    verif,            \* one call of verify_constraints: its inputs and result
    airck,            \* one call of the debug check_constraints: inputs, rows, status
    machine,          \* the machine trace pipeline of src/machine/src/trace.rs
    flat,             \* one row of extension-field elements, flattened and rebuilt
    sumck             \* one call of the debug check_cumulative_sums: inputs, status

vars == <<chips, random_elements, perms, rowres, cumsum, folder, verif, airck, machine, flat, sumck>>

(***************************************************************************)
(* Field arithmetic                                                        *)
(***************************************************************************)
P == 5
W == 2
D == 2

F == 0 .. (P - 1)
EF == F \X F

FAdd(a, b) == (a + b) % P
FNeg(a) == (P - a) % P
FSub(a, b) == (a + P - b) % P
FMul(a, b) == (a * b) % P

RECURSIVE FPow(_, _)
FPow(a, n) == IF n = 0 THEN 1 ELSE FMul(a, FPow(a, n - 1))

\* Field::inverse of the base field (Fermat); defined for a # 0.
FInv(a) == FPow(a, P - 2)

Zero == <<0, 0>>
One == <<1, 0>>
from_f(a) == <<a, 0>>

EAdd(x, y) == <<FAdd(x[1], y[1]), FAdd(x[2], y[2])>>
ENeg(x) == <<FNeg(x[1]), FNeg(x[2])>>
ESub(x, y) == <<FSub(x[1], y[1]), FSub(x[2], y[2])>>
EMul(x, y) ==
    <<FAdd(FMul(x[1], y[1]), FMul(W, FMul(x[2], y[2]))),
      FAdd(FMul(x[1], y[2]), FMul(x[2], y[1]))>>
\* extension element times base element
EScale(x, a) == <<FMul(x[1], a), FMul(x[2], a)>>

\* Field::inverse of the extension: conjugate over norm; defined for x # Zero.
EInv(x) ==
    LET norm == FSub(FMul(x[1], x[1]), FMul(W, FMul(x[2], x[2])))
        ninv == FInv(norm)
    IN  <<FMul(x[1], ninv), FMul(FNeg(x[2]), ninv)>>

RECURSIVE EPow(_, _)
EPow(x, n) == IF n = 0 THEN One ELSE EMul(x, EPow(x, n - 1))

\* AbstractExtensionField::monomial(e), 0 <= e < D
monomial(e) == IF e = 0 THEN <<1, 0>> ELSE <<0, 1>>

RECURSIVE ESum(_)
ESum(s) == IF s = <<>> THEN Zero ELSE EAdd(s[1], ESum(Tail(s)))

RECURSIVE EProduct(_)
EProduct(s) == IF s = <<>> THEN One ELSE EMul(s[1], EProduct(Tail(s)))

(***************************************************************************)
(* Options and row-major matrices                                          *)
(***************************************************************************)
None == <<>>
Some(x) == <<x>>
IsSome(o) == Len(o) = 1
Unwrap(o) == o[1]

\* RowMajorMatrix::new(values, width); width >= 1
RowMajorMatrix(values, width) == [values |-> values, width |-> width]
Height(m) == Len(m.values) \div m.width
\* Matrix::row_slice(r), r 0-based
RowSlice(m, r) == SubSeq(m.values, r * m.width + 1, (r + 1) * m.width)
Last(s) == s[Len(s)]

RECURSIVE Concat(_)
Concat(ss) == IF ss = <<>> THEN <<>> ELSE ss[1] \o Concat(Tail(ss))

(***************************************************************************)
(* Virtual columns and interactions                                        *)
(***************************************************************************)
\* VirtualPairCol: column_weights (pairs column, weight) and a constant.
SingleMain(c) == [column_weights |-> << <<"Main", c, 1>> >>, constant |-> 0]
SinglePreprocessed(c) == [column_weights |-> << <<"Preprocessed", c, 1>> >>, constant |-> 0]
Constant(v) == [column_weights |-> <<>>, constant |-> v]

RECURSIVE ApplyWeights(_, _, _)
ApplyWeights(cw, preprocessed_row, main_row) ==
    IF cw = <<>> THEN 0
    ELSE LET t == cw[1]
             v == IF t[1] = "Main" THEN main_row[t[2] + 1] ELSE preprocessed_row[t[2] + 1]
         IN  FAdd(FMul(v, t[3]), ApplyWeights(Tail(cw), preprocessed_row, main_row))

\* VirtualPairCol::apply(preprocessed, main)
Apply(col, preprocessed_row, main_row) ==
    FAdd(ApplyWeights(col.column_weights, preprocessed_row, main_row), col.constant)

Interaction(fields, count, argument_index) ==
    [fields |-> fields, count |-> count, argument_index |-> argument_index]

\* the receives before the sends
AllInteractionsReceivesFirst(chip) ==
    [i \in 1 .. Len(chip.receives) |-> <<chip.receives[i], "Receive">>]
        \o [i \in 1 .. Len(chip.sends) |-> <<chip.sends[i], "Send">>]

\* Chip::all_interactions: the sends, then the receives
all_interactions(chip) ==
    [i \in 1 .. Len(chip.sends) |-> <<chip.sends[i], "Send">>]
        \o [i \in 1 .. Len(chip.receives) |-> <<chip.receives[i], "Receive">>]

SeqMax(s) ==
    IF s = <<>> THEN 0
    ELSE CHOOSE x \in {s[i] : i \in 1 .. Len(s)} : \A j \in 1 .. Len(s) : s[j] <= x

\* the powers of the challenge taken from g^0: powers().take(max + 1)
GenerateRlcElementsFromOne(chip, rand) ==
    LET ais == [i \in 1 .. Len(chip.sends) |-> chip.sends[i].argument_index]
                 \o [i \in 1 .. Len(chip.receives) |-> chip.receives[i].argument_index]
    IN  [i \in 1 .. (SeqMax(ais) + 1) |-> EPow(rand[1], i - 1)]

\* rap::util::generate_rlc_elements(sends, receives, random_element)
rap_generate_rlc_elements(sends, receives, random_element) ==
    LET ais == [i \in 1 .. Len(sends) |-> sends[i].argument_index]
                 \o [i \in 1 .. Len(receives) |-> receives[i].argument_index]
    IN  [i \in 1 .. (SeqMax(ais) + 1) |-> EPow(random_element, i)]

\* generate_rlc_elements: random_elements[0].powers().skip(1).take(max + 1)
generate_rlc_elements(chip, rand) ==
    LET ais == [i \in 1 .. Len(chip.sends) |-> chip.sends[i].argument_index]
                 \o [i \in 1 .. Len(chip.receives) |-> chip.receives[i].argument_index]
    IN  [i \in 1 .. (SeqMax(ais) + 1) |-> EPow(rand[1], i)]

\* reduce_row: sum over the fields zipped with the powers of beta, plus alpha
RECURSIVE ReduceFields(_, _, _, _, _)
ReduceFields(main_row, preprocessed_row, fields, beta, j) ==
    IF j > Len(fields) THEN Zero
    ELSE EAdd(EScale(EPow(beta, j - 1), Apply(fields[j], preprocessed_row, main_row)),
              ReduceFields(main_row, preprocessed_row, fields, beta, j + 1))

reduce_row(main_row, preprocessed_row, fields, alpha, beta) ==
    EAdd(ReduceFields(main_row, preprocessed_row, fields, beta, 1), alpha)

(***************************************************************************)
(* Batched inversion                                                       *)
(***************************************************************************)
\* running products x[1], x[1]*x[2], ... (Montgomery's trick, forward pass)
RECURSIVE PrefixProducts(_, _)
PrefixProducts(xs, i) ==
    IF i = 0 THEN <<>>
    ELSE LET prev == PrefixProducts(xs, i - 1)
         IN  Append(prev, IF i = 1 THEN xs[1] ELSE EMul(prev[i - 1], xs[i]))

\* backward pass: acc is the inverse of x[1]*...*x[i]
RECURSIVE BackwardPass(_, _, _, _)
BackwardPass(xs, prefix, i, acc) ==
    IF i = 0 THEN <<>>
    ELSE LET inv_i == IF i = 1 THEN acc ELSE EMul(acc, prefix[i - 1])
         IN  Append(BackwardPass(xs, prefix, i - 1, EMul(acc, xs[i])), inv_i)

\* p3_field::batch_multiplicative_inverse: one inversion for the whole batch;
\* every input is nonzero
batch_multiplicative_inverse(xs) ==
    IF xs = <<>> THEN <<>>
    ELSE LET prefix == PrefixProducts(xs, Len(xs))
         IN  BackwardPass(xs, prefix, Len(xs), EInv(prefix[Len(xs)]))

\* the indices (1-based) of the nonzero values, in order
RECURSIVE NonzeroIndices(_, _)
NonzeroIndices(values, i) ==
    IF i > Len(values) THEN <<>>
    ELSE IF values[i] = Zero THEN NonzeroIndices(values, i + 1)
    ELSE <<i>> \o NonzeroIndices(values, i + 1)

\* a scatter that writes the i-th inverse to position i, not to indices[i]
RECURSIVE ScatterByPosition(_, _, _, _)
ScatterByPosition(result, indices, inverses, i) ==
    IF i > Len(indices) THEN result
    ELSE ScatterByPosition([result EXCEPT ![i] = inverses[i]], indices, inverses, i + 1)

\* result[index] = inverse_nonzero_values[i] for each (i, index) of indices
RECURSIVE Scatter(_, _, _, _)
Scatter(result, indices, inverses, i) ==
    IF i > Len(indices) THEN result
    ELSE Scatter([result EXCEPT ![indices[i]] = inverses[i]], indices, inverses, i + 1)

batch_multiplicative_inverse_allowing_zero(values) ==
    LET indices == NonzeroIndices(values, 1)
        nonzero_values == [i \in 1 .. Len(indices) |-> values[indices[i]]]
        inverse_nonzero_values == batch_multiplicative_inverse(nonzero_values)
    IN  Scatter(values, indices, inverse_nonzero_values, 1)

(***************************************************************************)
(* generate_permutation_trace                                              *)
(***************************************************************************)
\* the preprocessed row of row n (0-based), empty when the chip has none
PreprocessedRow(chip, n) ==
    IF IsSome(chip.preprocessed) THEN RowSlice(Unwrap(chip.preprocessed), n) ELSE <<>>

\* the random linear combination of interaction m (1-based) on row n (0-based)
Rlc(chip, main, rand, n, m) ==
    LET interaction == all_interactions(chip)[m][1]
        alphas == generate_rlc_elements(chip, rand)
    IN  reduce_row(RowSlice(main, n), PreprocessedRow(chip, n), interaction.fields,
                   alphas[interaction.argument_index + 1], rand[2])

\* first loop: one row of rlc values, the running-sum cell still zero
RlcRow(chip, main, rand, n) ==
    [m \in 1 .. Len(all_interactions(chip)) |-> Rlc(chip, main, rand, n, m)] \o <<Zero>>

\* count.apply(preprocessed_row, main_row) of interaction m on row n
Mult(chip, main, n, m) ==
    Apply(all_interactions(chip)[m][1].count, PreprocessedRow(chip, n), RowSlice(main, n))

\* a running sum that adds the receives instead of subtracting them
RECURSIVE AddInteractionsAllSends(_, _, _, _, _, _)
AddInteractionsAllSends(chip, main, perm_row, n, m, acc) ==
    IF m > Len(all_interactions(chip)) THEN acc
    ELSE AddInteractionsAllSends(chip, main, perm_row, n, m + 1,
                                 EAdd(acc, EScale(perm_row[m], Mult(chip, main, n, m))))

\* phi[n] += / -= perm_row[m] * mult over the interactions m, m+1, ...
RECURSIVE AddInteractions(_, _, _, _, _, _)
AddInteractions(chip, main, perm_row, n, m, acc) ==
    IF m > Len(all_interactions(chip)) THEN acc
    ELSE LET term == EScale(perm_row[m], Mult(chip, main, n, m))
             next == IF all_interactions(chip)[m][2] = "Send"
                     THEN EAdd(acc, term) ELSE ESub(acc, term)
         IN  AddInteractions(chip, main, perm_row, n, m + 1, next)

\* a running sum that forgets phi[n - 1]
PhiNoCarry(chip, main, perm, n) ==
    AddInteractions(chip, main, RowSlice(perm, n), n, 1, Zero)

\* second loop: phi[n] starts from phi[n - 1] when n > 0
RECURSIVE Phi(_, _, _, _)
Phi(chip, main, perm, n) ==
    AddInteractions(chip, main, RowSlice(perm, n), n, 1,
                    IF n > 0 THEN Phi(chip, main, perm, n - 1) ELSE Zero)

generate_permutation_trace(chip, main, rand) ==
    LET perm_width == Len(all_interactions(chip)) + 1
        perm_values == Concat([r \in 1 .. Height(main) |-> RlcRow(chip, main, rand, r - 1)])
        perm == RowMajorMatrix(batch_multiplicative_inverse_allowing_zero(perm_values),
                               perm_width)
        phi == [r \in 1 .. Height(perm) |-> Phi(chip, main, perm, r - 1)]
    IN  RowMajorMatrix(
            [i \in 1 .. Len(perm.values) |->
                IF i % perm_width = 0 THEN phi[i \div perm_width] ELSE perm.values[i]],
            perm_width)

(***************************************************************************)
(* eval_permutation_constraints on the debug builder                       *)
(***************************************************************************)
\* selectors whose last row is one past the trace
SelectorsOffByOne(i, height) ==
    [is_first_row |-> IF i = 0 THEN 1 ELSE 0,
     is_last_row |-> IF i = height THEN 1 ELSE 0,
     is_transition |-> IF i = height THEN 0 ELSE 1]

\* the selectors check_constraints gives the builder of row i (0-based)
Selectors(i, height) ==
    [is_first_row |-> IF i = 0 THEN 1 ELSE 0,
     is_last_row |-> IF i = height - 1 THEN 1 ELSE 0,
     is_transition |-> IF i = height - 1 THEN 0 ELSE 1]

\* the DebugConstraintBuilder check_constraints builds for row i
DebugConstraintBuilder(chip, main, perm, rand, i) ==
    LET height == Height(main)
        i_next == (i + 1) % height
        sels == Selectors(i, height)
    IN  [row_index |-> i,
         main |-> [local |-> RowSlice(main, i), next |-> RowSlice(main, i_next)],
         preprocessed |-> [local |-> PreprocessedRow(chip, i),
                           next |-> PreprocessedRow(chip, i_next)],
         perm |-> [local |-> RowSlice(perm, i), next |-> RowSlice(perm, i_next)],
         perm_challenges |-> rand,
         is_first_row |-> sels.is_first_row,
         is_last_row |-> sels.is_last_row,
         is_transition |-> sels.is_transition]

\* rlc of interaction m as the evaluator recomputes it from the local rows
RECURSIVE EvalRlcFields(_, _, _, _)
EvalRlcFields(builder, fields, beta, j) ==
    IF j > Len(fields) THEN Zero
    ELSE EAdd(EScale(EPow(beta, j - 1),
                     Apply(fields[j], builder.preprocessed.local, builder.main.local)),
              EvalRlcFields(builder, fields, beta, j + 1))

EvalRlc(chip, builder, m) ==
    LET interaction == all_interactions(chip)[m][1]
        rand_elems == builder.perm_challenges
        alphas == generate_rlc_elements(chip, rand_elems)
    IN  EAdd(EvalRlcFields(builder, interaction.fields, rand_elems[2], 1),
             alphas[interaction.argument_index + 1])

\* the product asserted to be zero instead of one
ReciprocalConstraintZero(chip, builder, m) ==
    EMul(EvalRlc(chip, builder, m), builder.perm.local[m])

\* assert_one_ext(rlc * perm_local[m]): the value handed to assert_zero_ext
ReciprocalConstraint(chip, builder, m) ==
    ESub(EMul(EvalRlc(chip, builder, m), builder.perm.local[m]), One)

\* phi_0 and rhs: the signed sums over the interactions of perm[m] * mult
RECURSIVE SignedSum(_, _, _, _, _)
SignedSum(chip, perm_row, preprocessed_row, main_row, m) ==
    IF m > Len(all_interactions(chip)) THEN Zero
    ELSE LET ia == all_interactions(chip)[m]
             term == EScale(perm_row[m], Apply(ia[1].count, preprocessed_row, main_row))
             rest == SignedSum(chip, perm_row, preprocessed_row, main_row, m + 1)
         IN  IF ia[2] = "Send" THEN EAdd(rest, term) ELSE ESub(rest, term)

\* lhs - rhs of the running-sum transition constraint, before the selector
TransitionDiff(chip, builder) ==
    ESub(ESub(Last(builder.perm.next), Last(builder.perm.local)),
         SignedSum(chip, builder.perm.next, builder.preprocessed.next, builder.main.next, 1))

\* phi_local - phi_0 of the first-row constraint, before the selector
FirstRowDiff(chip, builder) ==
    ESub(Last(builder.perm.local),
         SignedSum(chip, builder.perm.local, builder.preprocessed.local,
                   builder.main.local, 1))

\* phi_local - cumulative_sum of the last-row constraint, before the selector
LastRowDiff(builder, cumulative_sum) == ESub(Last(builder.perm.local), cumulative_sum)

\* builder.when(selector): the filtered builder multiplies by the selector
When(selector, x) == EScale(x, selector)

\* the values eval_permutation_constraints asserts to be zero, in call order
eval_permutation_constraints(chip, builder, cumulative_sum) ==
    [m \in 1 .. Len(all_interactions(chip)) |-> ReciprocalConstraint(chip, builder, m)]
        \o << When(builder.is_transition, TransitionDiff(chip, builder)),
              When(builder.is_first_row, FirstRowDiff(chip, builder)),
              When(builder.is_last_row, LastRowDiff(builder, cumulative_sum)) >>

\* chip.eval: the local constraints of the chip. A chip either has none or is
\* the boundary chip "when_first_row: main[0] = first; when_last_row:
\* main[0] = last"; the values are those handed to assert_zero, in call order
ChipEval(chip, builder) ==
    IF chip.boundary = None THEN <<>>
    ELSE LET b == Unwrap(chip.boundary)
         IN  << FMul(builder.is_first_row, FSub(builder.main.local[1], b.first)),
                FMul(builder.is_last_row, FSub(builder.main.local[1], b.last)) >>

\* the cumulative sum check_constraints passes on: the last row's last entry
CumulativeSumOf(perm) == Last(RowSlice(perm, Height(perm) - 1))

\* the debug builder's assert_zero panics on a nonzero value
AllZero(asserted) == \A j \in 1 .. Len(asserted) : asserted[j] = Zero

\* one iteration of check_constraints' parallel loop
CheckRow(chip, main, perm, rand, i) ==
    LET builder == DebugConstraintBuilder(chip, main, perm, rand, i)
        local == ChipEval(chip, builder)
        asserted == eval_permutation_constraints(chip, builder, CumulativeSumOf(perm))
    IN  [row |-> i,
         local |-> local,
         is_first_row |-> builder.is_first_row,
         is_last_row |-> builder.is_last_row,
         is_transition |-> builder.is_transition,
         asserted |-> asserted,
         failed |-> (\E j \in 1 .. Len(local) : local[j] # 0) \/ ~AllZero(asserted)]

(***************************************************************************)
(* check_cumulative_sums (src/src/chip.rs)                                 *)
(***************************************************************************)
RECURSIVE SumLastEntries(_, _)
SumLastEntries(ps, i) ==
    IF i > Len(ps) THEN Zero
    ELSE EAdd(CumulativeSumOf(ps[i]), SumLastEntries(ps, i + 1))

\* row_slice(height - 1) of a matrix without rows panics; else assert_eq!(sum, 0)
check_cumulative_sums(ps) ==
    IF \E i \in 1 .. Len(ps) : Height(ps[i]) = 0 THEN "index_panic"
    ELSE IF SumLastEntries(ps, 1) = Zero THEN "ok" ELSE "assert_failed"

(***************************************************************************)
(* Inputs of the permutation pipeline                                      *)
(***************************************************************************)
MaxHeight == 2

\* rows of the two-column main traces and of the one-column preprocessed traces
MainRows == {<<0, 0>>, <<1, 1>>, <<3, 2>>}
PreprocessedRows == {<<1>>, <<4>>}

MatricesOf(rows, width, h) ==
    {RowMajorMatrix(Concat(r), width) : r \in [1 .. h -> rows]}

\* the challenges the transcript may sample: zero, base-field and proper
\* extension elements
ChallengeValues == {<<0, 0>>, <<4, 0>>, <<1, 2>>}

\* interaction declarations over the main columns only
MainInteractions ==
    { [sends |-> <<>>, receives |-> <<>>],
      [sends |-> <<Interaction(<<SingleMain(0)>>, SingleMain(1), 0)>>,
       receives |-> <<>>],
      [sends |-> <<>>,
       receives |-> <<Interaction(<<SingleMain(0), SingleMain(1)>>, Constant(1), 1)>>],
      [sends |-> <<Interaction(<<SingleMain(0)>>, SingleMain(1), 0)>>,
       receives |-> <<Interaction(<<SingleMain(0)>>, SingleMain(1), 0)>>],
      [sends |-> <<Interaction(<<SingleMain(0), Constant(1)>>, Constant(2), 1)>>,
       receives |-> <<Interaction(<<SingleMain(1)>>, SingleMain(0), 0)>>] }

\* interaction declarations that also read the preprocessed column
PairInteractions ==
    { [sends |-> <<Interaction(<<SinglePreprocessed(0), SingleMain(0)>>,
                               SinglePreprocessed(0), 0)>>,
       receives |-> <<Interaction(<<SingleMain(0)>>, SingleMain(1), 1)>>],
      [sends |-> <<>>,
       receives |-> <<Interaction(<<SinglePreprocessed(0)>>, SingleMain(1), 0)>>] }

\* the local constraints of the boundary chip
Boundary == Some([first |-> 1, last |-> 3])

\* the boundary chip declares one of these
BoundaryInteractions ==
    { [sends |-> <<Interaction(<<SingleMain(0)>>, SingleMain(1), 0)>>,
       receives |-> <<>>],
      [sends |-> <<Interaction(<<SingleMain(0), Constant(1)>>, Constant(2), 1)>>,
       receives |-> <<Interaction(<<SingleMain(1)>>, SingleMain(0), 0)>>] }

Chip(main, preprocessed, ia, boundary) ==
    [main |-> main, preprocessed |-> preprocessed,
     sends |-> ia.sends, receives |-> ia.receives, boundary |-> boundary]

\* chips with a main trace of height h; a preprocessed trace has the same height
\* and is read by the chip's interactions
ChipsOfHeight(h) ==
    {Chip(main, None, ia, None) :
        main \in MatricesOf(MainRows, 2, h), ia \in MainInteractions}
    \cup {Chip(main, None, ia, Boundary) :
            main \in MatricesOf(MainRows, 2, h), ia \in BoundaryInteractions}
    \cup {Chip(main, Some(pre), ia, None) :
            main \in MatricesOf(MainRows, 2, h),
            pre \in MatricesOf(PreprocessedRows, 1, h),
            ia \in PairInteractions}

Chips == UNION {ChipsOfHeight(h) : h \in 0 .. MaxHeight}

IdleFolder ==
    [alpha |-> Zero, prover |-> <<>>, verifier |-> Zero,
     prover_log |-> <<>>, verifier_log |-> <<>>]
IdleVerif == [input |-> None, result |-> None]
IdleAirCheck == [input |-> None, status |-> "idle", rows |-> {}]
IdleMachine == [stage |-> "idle"]
IdleFlat == [stage |-> "idle"]
IdleSumCheck == [input |-> None, status |-> "idle"]

(***************************************************************************)
(* The permutation pipeline of one chip                                    *)
(***************************************************************************)
InitPerm ==
    /\ chips \in {<<c>> : c \in Chips}
    /\ random_elements \in ChallengeValues \X ChallengeValues
    /\ perms = [c \in 1 .. Len(chips) |-> None]
    /\ rowres = {}
    /\ cumsum = "pending"
    /\ folder = IdleFolder
    /\ verif = IdleVerif
    /\ airck = IdleAirCheck
    /\ machine = IdleMachine
    /\ flat = IdleFlat /\ sumck = IdleSumCheck

\* generate_permutation_trace for the next chip, in chip order
GeneratePermutationTrace ==
    /\ \E c \in 1 .. Len(chips) :
        /\ perms[c] = None
        /\ \A b \in 1 .. (c - 1) : IsSome(perms[b])
        /\ perms' = [perms EXCEPT
                ![c] = Some(generate_permutation_trace(chips[c], chips[c].main,
                                                       random_elements))]
    /\ UNCHANGED <<chips, random_elements, rowres, cumsum, folder, verif, airck, machine, flat, sumck>>

\* check_constraints evaluates one more row of a chip; rows run in any order
CheckConstraintsRow ==
    /\ \E c \in 1 .. Len(chips) :
        /\ IsSome(perms[c])
        /\ Height(chips[c].main) = Height(Unwrap(perms[c]))
        /\ \E i \in 0 .. (Height(chips[c].main) - 1) :
            /\ ~ \E r \in rowres : r.chip = c /\ r.row = i
            /\ rowres' = rowres \cup
                   { [chip |-> c] @@ CheckRow(chips[c], chips[c].main, Unwrap(perms[c]),
                                              random_elements, i) }
    /\ UNCHANGED <<chips, random_elements, perms, cumsum, folder, verif, airck, machine, flat, sumck>>

\* check_cumulative_sums over the permutation traces of all chips
CheckCumulativeSums ==
    /\ cumsum = "pending"
    /\ \A c \in 1 .. Len(chips) : IsSome(perms[c])
    /\ cumsum' = check_cumulative_sums([c \in 1 .. Len(chips) |-> Unwrap(perms[c])])
    /\ UNCHANGED <<chips, random_elements, perms, rowres, folder, verif, airck, machine, flat, sumck>>

NextPerm == GeneratePermutationTrace \/ CheckConstraintsRow

SpecPerm == InitPerm /\ [][NextPerm]_vars

(***************************************************************************)
(* Properties of the permutation pipeline                                  *)
(***************************************************************************)
K(chip) == Len(all_interactions(chip))
PermEntry(perm, n, m) == RowSlice(perm, n)[m]
RowsOf(chip) == 0 .. (Height(chip.main) - 1)

AllRlcNonzero(chip) ==
    \A n \in RowsOf(chip), m \in 1 .. K(chip) :
        Rlc(chip, chip.main, random_elements, n, m) # Zero

BuilderOf(r) ==
    DebugConstraintBuilder(chips[r.chip], chips[r.chip].main, Unwrap(perms[r.chip]),
                           random_elements, r.row)

AllRowsChecked(c) ==
    \A n \in RowsOf(chips[c]) : \E r \in rowres : r.chip = c /\ r.row = n

\* C1: when no rlc_m(n) vanishes, the generated permutation trace satisfies on
\* every checked row all constraints eval_permutation_constraints emits with
\* cumulative_sum the last running-sum entry: each reciprocal constraint, the
\* transition constraint on rows n < height-1, the first-row constraint on
\* row 0 and the last-row constraint on row height-1.
C1_GeneratedTraceSatisfiesConstraints ==
    \A r \in rowres :
        LET chip == chips[r.chip]
            perm == Unwrap(perms[r.chip])
            h == Height(chip.main)
            b == BuilderOf(r)
        IN  AllRlcNonzero(chip) =>
                /\ Len(r.asserted) = K(chip) + 3
                /\ AllZero(r.asserted)
                /\ \A m \in 1 .. K(chip) :
                       EMul(Rlc(chip, chip.main, random_elements, r.row, m),
                            PermEntry(perm, r.row, m)) = One
                /\ r.row < h - 1 => TransitionDiff(chip, b) = Zero
                /\ r.row = 0 => FirstRowDiff(chip, b) = Zero
                /\ r.row = h - 1 => LastRowDiff(b, CumulativeSumOf(perm)) = Zero

\* a chip with two interactions and two rows, no vanishing rlc, both rows
\* checked and a nonzero cumulative sum
C1_Witness ==
    \E c \in 1 .. Len(chips) :
        /\ IsSome(perms[c])
        /\ K(chips[c]) = 2 /\ Height(chips[c].main) = 2
        /\ AllRlcNonzero(chips[c])
        /\ AllRowsChecked(c)
        /\ CumulativeSumOf(Unwrap(perms[c])) # Zero
        /\ PermEntry(Unwrap(perms[c]), 0, 3) # CumulativeSumOf(Unwrap(perms[c]))

\* the vector generate_permutation_trace hands to the batched inverse
PermValuesOf(chip) ==
    Concat([r \in 1 .. Height(chip.main) |->
                RlcRow(chip, chip.main, random_elements, r - 1)])

\* C2: in a generated trace perm[n,m] * rlc_m(n) = 1 when rlc_m(n) # 0 and
\* perm[n,m] = 0 when rlc_m(n) = 0; the batched inverse keeps the length,
\* leaves each zero at its index and puts each inverse at its index.
C2_ReciprocalInvariant ==
    \A c \in 1 .. Len(chips) :
        IsSome(perms[c]) =>
            LET chip == chips[c]
                perm == Unwrap(perms[c])
                values == PermValuesOf(chip)
                inverted == batch_multiplicative_inverse_allowing_zero(values)
            IN  /\ \A n \in RowsOf(chip), m \in 1 .. K(chip) :
                       LET rlc == Rlc(chip, chip.main, random_elements, n, m)
                       IN  /\ rlc # Zero => EMul(PermEntry(perm, n, m), rlc) = One
                           /\ rlc = Zero => PermEntry(perm, n, m) = Zero
                /\ Len(inverted) = Len(values)
                /\ \A i \in 1 .. Len(values) :
                       /\ values[i] = Zero => inverted[i] = Zero
                       /\ values[i] # Zero => EMul(inverted[i], values[i]) = One

\* a generated trace with a vanishing rlc followed, later in the batch, by an
\* rlc that is not its own inverse
C2_Witness ==
    \E c \in 1 .. Len(chips) :
        /\ IsSome(perms[c])
        /\ LET values == PermValuesOf(chips[c])
               w == K(chips[c]) + 1
           IN  \E i, j \in 1 .. Len(values) :
                   /\ i < j /\ i % w # 0 /\ j % w # 0
                   /\ values[i] = Zero
                   /\ values[j] # Zero /\ EMul(values[j], values[j]) # One
                   /\ Unwrap(perms[c]).values[j] = EInv(values[j])

SignOf(kind) == IF kind = "Send" THEN 1 ELSE P - 1

\* sum over the interactions m of sign_m * mult_m(n) * perm[n,m]
RowContribution(chip, perm, n) ==
    ESum([m \in 1 .. K(chip) |->
            EScale(PermEntry(perm, n, m),
                   FMul(SignOf(all_interactions(chip)[m][2]), Mult(chip, chip.main, n, m)))])

\* sum over the rows n' <= n of their contributions
RunningSumUpTo(chip, perm, n) ==
    ESum([r \in 1 .. (n + 1) |-> RowContribution(chip, perm, r - 1)])

\* C3: the generated trace has width k+1 and the height of the main trace;
\* its last column is the running sum over rows n' <= n and interactions m of
\* sign_m * mult_m(n') * perm[n',m]; the cumulative sum is the last row's
\* entry of that column; with k = 0 the column and the cumulative sum are 0.
C3_RunningSumInvariant ==
    \A c \in 1 .. Len(chips) :
        IsSome(perms[c]) =>
            LET chip == chips[c]
                perm == Unwrap(perms[c])
                k == Len(chip.sends) + Len(chip.receives)
                h == Height(chip.main)
            IN  /\ perm.width = k + 1
                /\ Len(perm.values) = h * (k + 1)
                /\ Height(perm) = h
                /\ \A n \in RowsOf(chip) :
                       PermEntry(perm, n, k + 1) = RunningSumUpTo(chip, perm, n)
                /\ h >= 1 => CumulativeSumOf(perm) = RunningSumUpTo(chip, perm, h - 1)
                /\ k = 0 => /\ \A i \in 1 .. Len(perm.values) : perm.values[i] = Zero
                            /\ h >= 1 => CumulativeSumOf(perm) = Zero

\* two interactions, two rows, a nonzero first running sum and a different,
\* nonzero cumulative sum
C3_Witness ==
    \E c \in 1 .. Len(chips) :
        /\ IsSome(perms[c])
        /\ Len(chips[c].sends) = 1 /\ Len(chips[c].receives) = 1
        /\ Height(chips[c].main) = 2
        /\ PermEntry(Unwrap(perms[c]), 0, 3) # Zero
        /\ PermEntry(Unwrap(perms[c]), 1, 3) # Zero
        /\ PermEntry(Unwrap(perms[c]), 1, 3) # PermEntry(Unwrap(perms[c]), 0, 3)

\* a checked row n and interaction m with perm[n,m] = 0, mult_m(n) = 0 and
\* rlc_m(n) = 0
DegenerateCell(r, m) ==
    LET chip == chips[r.chip]
    IN  /\ PermEntry(Unwrap(perms[r.chip]), r.row, m) = Zero
        /\ Mult(chip, chip.main, r.row, m) = 0
        /\ Rlc(chip, chip.main, random_elements, r.row, m) = Zero

\* C5 as stated: on a degenerate cell the reciprocal constraint is satisfied
\* and the row check does not fail because of it.
C5_DegenerateRowSatisfied ==
    \A r \in rowres : \A m \in 1 .. K(chips[r.chip]) :
        DegenerateCell(r, m) => r.asserted[m] = Zero

\* C5 amended: the reciprocal constraint of interaction m is satisfied on a
\* checked row n exactly when rlc_m(n) # 0; where the batched inverse left
\* perm[n,m] = 0 it evaluates to 0 - 1, and check_constraints fails on the row.
C5_ReciprocalHoldsIffRlcNonzero ==
    \A r \in rowres : \A m \in 1 .. K(chips[r.chip]) :
        LET chip == chips[r.chip]
            rlc == Rlc(chip, chip.main, random_elements, r.row, m)
        IN  /\ r.asserted[m] = Zero <=> rlc # Zero
            /\ PermEntry(Unwrap(perms[r.chip]), r.row, m) = Zero =>
                   /\ rlc = Zero
                   /\ r.asserted[m] = ENeg(One)
                   /\ r.failed

\* a checked degenerate cell
C5_Witness ==
    \E r \in rowres : \E m \in 1 .. K(chips[r.chip]) : DegenerateCell(r, m)

\* C10: on the rows 0..height-1, is_first_row is 1 on row 0 only, is_last_row
\* is 1 on row height-1 only and is_transition = 1 - is_last_row; a constraint
\* under when_first_row / when_last_row is asserted as zero on every other row
\* and as its own value on row 0 / row height-1.
C10_RowSelectors ==
    \A r \in rowres :
        LET chip == chips[r.chip]
            h == Height(chip.main)
            k == K(chip)
            b == BuilderOf(r)
        IN  /\ r.is_first_row = (IF r.row = 0 THEN 1 ELSE 0)
            /\ r.is_last_row = (IF r.row = h - 1 THEN 1 ELSE 0)
            /\ r.is_transition = FSub(1, r.is_last_row)
            /\ h = 1 => r.is_first_row = 1 /\ r.is_last_row = 1 /\ r.is_transition = 0
            /\ r.asserted[k + 2] = (IF r.row = 0 THEN FirstRowDiff(chip, b) ELSE Zero)
            /\ r.asserted[k + 3] =
                   (IF r.row = h - 1 THEN LastRowDiff(b, CumulativeSumOf(Unwrap(perms[r.chip])))
                    ELSE Zero)
            /\ IsSome(chip.boundary) =>
                   LET bd == Unwrap(chip.boundary)
                       cell == RowSlice(chip.main, r.row)[1]
                   IN  /\ r.local[1] = (IF r.row = 0 THEN FSub(cell, bd.first) ELSE 0)
                       /\ r.local[2] = (IF r.row = h - 1 THEN FSub(cell, bd.last) ELSE 0)

\* a boundary chip of height 2 whose row 0 breaks the last-row value without
\* failing and whose last row breaks it and fails, the first-row difference of
\* the permutation constraints being nonzero and masked on the last row
C10_Witness ==
    \E r0, r1 \in rowres :
        /\ r0.chip = r1.chip /\ r0.row = 0 /\ r1.row = 1
        /\ Height(chips[r0.chip].main) = 2
        /\ IsSome(chips[r0.chip].boundary)
        /\ RowSlice(chips[r0.chip].main, 0)[1] = Unwrap(chips[r0.chip].boundary).first
        /\ RowSlice(chips[r0.chip].main, 0)[1] # Unwrap(chips[r0.chip].boundary).last
        /\ RowSlice(chips[r0.chip].main, 1)[1] # Unwrap(chips[r0.chip].boundary).last
        /\ r0.local = <<0, 0>> /\ r1.local[2] # 0 /\ r1.failed
        /\ FirstRowDiff(chips[r1.chip], BuilderOf(r1)) # Zero
        /\ r1.asserted[K(chips[r1.chip]) + 2] = Zero

(***************************************************************************)
(* A machine of two chips on shared buses                                  *)
(***************************************************************************)
\* the rows of both chips together
MaxBusRows == 3

\* rows <<value, multiplicity>>
BusRows == {<<1, 1>>, <<1, 2>>, <<3, 1>>, <<3, 0>>}

BusInteractions ==
    { [sends |-> <<Interaction(<<SingleMain(0)>>, SingleMain(1), 0)>>,
       receives |-> <<>>],
      [sends |-> <<>>,
       receives |-> <<Interaction(<<SingleMain(0)>>, SingleMain(1), 0)>>],
      [sends |-> <<Interaction(<<SingleMain(0), Constant(2)>>, SingleMain(1), 1)>>,
       receives |-> <<Interaction(<<SingleMain(0)>>, SingleMain(1), 0)>>] }

BusChallenges ==
    { << <<4, 0>>, <<1, 2>> >>, << <<1, 2>>, <<4, 0>> >>, << <<0, 0>>, <<3, 0>> >> }

BusChipsOfHeight(h) ==
    {Chip(main, None, ia, None) :
        main \in MatricesOf(BusRows, 2, h), ia \in BusInteractions}

InitBus ==
    /\ \E h1, h2 \in 0 .. MaxBusRows :
        /\ h1 + h2 <= MaxBusRows
        /\ chips \in {<<a, b>> : a \in BusChipsOfHeight(h1), b \in BusChipsOfHeight(h2)}
    /\ random_elements \in BusChallenges
    /\ perms = [c \in 1 .. Len(chips) |-> None]
    /\ rowres = {}
    /\ cumsum = "pending"
    /\ folder = IdleFolder
    /\ verif = IdleVerif
    /\ airck = IdleAirCheck
    /\ machine = IdleMachine
    /\ flat = IdleFlat /\ sumck = IdleSumCheck

NextBus == GeneratePermutationTrace \/ CheckCumulativeSums

SpecBus == InitBus /\ [][NextBus]_vars

\* the bus messages of the machine: chip c, row n, interaction m
Messages ==
    {t \in (1 .. Len(chips)) \X (0 .. MaxBusRows) \X (1 .. 2) :
        t[2] < Height(chips[t[1]].main) /\ t[3] <= K(chips[t[1]])}

MsgInteraction(t) == all_interactions(chips[t[1]])[t[3]]
MsgBus(t) == MsgInteraction(t)[1].argument_index
MsgFields(t) ==
    LET fields == MsgInteraction(t)[1].fields
    IN  [j \in 1 .. Len(fields) |->
            Apply(fields[j], PreprocessedRow(chips[t[1]], t[2]),
                  RowSlice(chips[t[1]].main, t[2]))]
MsgMult(t) == Mult(chips[t[1]], chips[t[1]].main, t[2], t[3])

RECURSIVE SumMult(_)
SumMult(S) ==
    IF S = {} THEN 0
    ELSE LET t == CHOOSE x \in S : TRUE
         IN  FAdd(MsgMult(t), SumMult(S \ {t}))

\* for every bus b and field vector v the multiplicities of the Sends of v on
\* b equal those of the Receives of v on b
Balanced ==
    \A t \in Messages :
        LET same == {u \in Messages : MsgBus(u) = MsgBus(t) /\ MsgFields(u) = MsgFields(t)}
        IN  SumMult({u \in same : MsgInteraction(u)[2] = "Send"})
                = SumMult({u \in same : MsgInteraction(u)[2] = "Receive"})

\* C4: for a machine whose bus messages are balanced, and any challenges,
\* check_cumulative_sums finds the sum of the chips' cumulative sums to be 0
\* and does not panic.
C4_BalancedSumsToZero ==
    (cumsum # "pending" /\ Balanced) => cumsum = "ok"

\* the same for machines all of whose chips have at least one row
C4_BalancedNonEmptySumsToZero ==
    (cumsum # "pending" /\ Balanced /\ \A c \in 1 .. Len(chips) : Height(chips[c].main) >= 1)
        => cumsum = "ok"

(***************************************************************************)
(* Constraint folders                                                      *)
(***************************************************************************)
\* A packed value is a sequence of lanes.
PackedFromF(x, lanes) == [l \in 1 .. lanes |-> x]
PackedFromBase(x) == [l \in 1 .. Len(x) |-> from_f(x[l])]
PackedMul(a, b) == [l \in 1 .. Len(a) |-> EMul(a[l], b[l])]
PackedAdd(a, b) == [l \in 1 .. Len(a) |-> EAdd(a[l], b[l])]

\* ProverConstraintFolder::assert_zero, x a packed base-field value
ProverAssertZero(f, x) ==
    LET scaled == PackedMul(f.prover, PackedFromF(f.alpha, Len(f.prover)))
    IN  [f EXCEPT !.prover = PackedAdd(scaled, PackedFromBase(x)),
                  !.prover_log = Append(@, PackedFromBase(x))]

\* ProverConstraintFolder::assert_zero_ext, x a packed extension-field value
ProverAssertZeroExt(f, x) ==
    LET scaled == PackedMul(f.prover, PackedFromF(f.alpha, Len(f.prover)))
    IN  [f EXCEPT !.prover = PackedAdd(scaled, x),
                  !.prover_log = Append(@, x)]

\* VerifierConstraintFolder::assert_zero, x a base-field value
VerifierAssertZero(f, x) ==
    [f EXCEPT !.verifier = EAdd(EMul(f.verifier, f.alpha), from_f(x)),
              !.verifier_log = Append(@, from_f(x))]

VerifierAssertZeroExtAddFirst(f, x) ==
    [f EXCEPT !.verifier = EMul(EAdd(f.verifier, x), f.alpha),
              !.verifier_log = Append(@, x)]

\* VerifierConstraintFolder::assert_zero_ext, x an extension-field value
VerifierAssertZeroExt(f, x) ==
    [f EXCEPT !.verifier = EAdd(EMul(f.verifier, f.alpha), x),
              !.verifier_log = Append(@, x)]

\* assertions made on each folder
MaxAsserts == 2

FolderAlphas == {<<2, 0>>, <<1, 2>>, <<0, 1>>}
PackedVals == {<<1, 3>>, <<0, 2>>}
PackedChallenges == {<< <<1, 2>>, <<0, 1>> >>, << <<3, 0>>, <<1, 2>> >>}
AssertedVals == {0, 1, 3}
AssertedChallenges == {<<1, 2>>, <<3, 0>>}

InitFolder ==
    /\ chips = <<>>
    /\ random_elements = <<Zero, Zero>>
    /\ perms = <<>>
    /\ rowres = {}
    /\ cumsum = "pending"
    /\ \E alpha \in FolderAlphas :
        folder = [alpha |-> alpha, prover |-> <<Zero, Zero>>, verifier |-> Zero,
                  prover_log |-> <<>>, verifier_log |-> <<>>]
    /\ verif = IdleVerif
    /\ airck = IdleAirCheck
    /\ machine = IdleMachine
    /\ flat = IdleFlat /\ sumck = IdleSumCheck

ProverAssertZeroStep ==
    /\ Len(folder.prover_log) < MaxAsserts
    /\ \E x \in PackedVals : folder' = ProverAssertZero(folder, x)
    /\ UNCHANGED <<chips, random_elements, perms, rowres, cumsum, verif, airck, machine, flat, sumck>>

ProverAssertZeroExtStep ==
    /\ Len(folder.prover_log) < MaxAsserts
    /\ \E x \in PackedChallenges : folder' = ProverAssertZeroExt(folder, x)
    /\ UNCHANGED <<chips, random_elements, perms, rowres, cumsum, verif, airck, machine, flat, sumck>>

VerifierAssertZeroStep ==
    /\ Len(folder.verifier_log) < MaxAsserts
    /\ \E x \in AssertedVals : folder' = VerifierAssertZero(folder, x)
    /\ UNCHANGED <<chips, random_elements, perms, rowres, cumsum, verif, airck, machine, flat, sumck>>

VerifierAssertZeroExtStep ==
    /\ Len(folder.verifier_log) < MaxAsserts
    /\ \E x \in AssertedChallenges : folder' = VerifierAssertZeroExt(folder, x)
    /\ UNCHANGED <<chips, random_elements, perms, rowres, cumsum, verif, airck, machine, flat, sumck>>

NextFolder ==
    \/ ProverAssertZeroStep
    \/ ProverAssertZeroExtStep
    \/ VerifierAssertZeroStep
    \/ VerifierAssertZeroExtStep

SpecFolder == InitFolder /\ [][NextFolder]_vars

\* sum over i of alpha^(k-1-i) * c_i for c_0 .. c_(k-1)
ClosedForm(alpha, cs) ==
    ESum([i \in 1 .. Len(cs) |-> EMul(EPow(alpha, Len(cs) - i), cs[i])])

LaneLog(l) == [i \in 1 .. Len(folder.prover_log) |-> folder.prover_log[i][l]]

\* C8: after k assertions c_0 .. c_(k-1) in call order, of either kind and
\* starting from accumulator 0, the accumulator of the verifier folder and of
\* every lane of the prover folder is the sum over i of alpha^(k-1-i) * c_i,
\* and a prover lane that was given the verifier's assertion sequence holds
\* the verifier's accumulator.
C8_FoldingClosedForm ==
    /\ folder.verifier = ClosedForm(folder.alpha, folder.verifier_log)
    /\ \A l \in 1 .. Len(folder.prover) :
        /\ folder.prover[l] = ClosedForm(folder.alpha, LaneLog(l))
        /\ LaneLog(l) = folder.verifier_log => folder.prover[l] = folder.verifier

C8_Witness ==
    /\ Len(folder.verifier_log) = MaxAsserts
    /\ LaneLog(1) = folder.verifier_log
    /\ folder.verifier_log[1][2] = 0
    /\ folder.verifier_log[1][1] # 0
    /\ folder.verifier_log[MaxAsserts][2] # 0
    /\ folder.verifier # folder.verifier_log[MaxAsserts]

(***************************************************************************)
(* verify_constraints                                                      *)
(***************************************************************************)
\* A two-adic multiplicative coset shift * <g>, g of order 2^log_n.
Domain(log_n, shift) == [log_n |-> log_n, shift |-> shift]
Size(d) == 2 ^ d.log_n
two_adic_generator(log_n) == IF log_n = 0 THEN 1 ELSE IF log_n = 1 THEN 4 ELSE 2
first_point(d) == d.shift

\* zp_at_point at a point of the base field and of the extension field
zp_at_base_point(d, x) == FSub(FPow(FMul(x, FInv(d.shift)), Size(d)), 1)
zp_at_point(d, x) == ESub(EPow(EScale(x, FInv(d.shift)), Size(d)), One)

selectors_at_point(d, zeta) ==
    LET unshifted == EScale(zeta, FInv(d.shift))
        z_h == ESub(EPow(unshifted, Size(d)), One)
        g_inv == from_f(FInv(two_adic_generator(d.log_n)))
    IN  [is_first_row |-> EMul(z_h, EInv(ESub(unshifted, One))),
         is_last_row |-> EMul(z_h, EInv(ESub(unshifted, g_inv))),
         is_transition |-> ESub(unshifted, g_inv),
         inv_zeroifier |-> EInv(z_h)]

ZpFactor(qc_domains, i, j, zeta) ==
    EScale(zp_at_point(qc_domains[j], zeta),
           FInv(zp_at_base_point(qc_domains[j], first_point(qc_domains[i]))))

ZpsAllDomains(qc_domains, zeta) ==
    [i \in 1 .. Len(qc_domains) |->
        EProduct([j \in 1 .. Len(qc_domains) |-> ZpFactor(qc_domains, i, j, zeta)])]

\* zps[i]: the product over the other domains, in order
Zps(qc_domains, zeta) ==
    [i \in 1 .. Len(qc_domains) |->
        EProduct([k \in 1 .. Len(qc_domains) - 1 |->
            ZpFactor(qc_domains, i, IF k < i THEN k ELSE k + 1, zeta)])]

\* one opened chunk weighted by its zps entry
ChunkValue(zp, ch) ==
    ESum([e \in 1 .. Len(ch) |-> EMul(EMul(zp, monomial(e - 1)), ch[e])])

\* zps[ch_i] is read once per element of the chunk: an empty chunk reads nothing
Quotient(zps, quotient_chunks) ==
    ESum([i \in 1 .. Len(quotient_chunks) |->
            IF quotient_chunks[i] = <<>> THEN Zero
            ELSE ChunkValue(zps[i], quotient_chunks[i])])

\* zps[ch_i] of a chunk that has an element and lies beyond the last domain
ZpsIndexPanics(zps, quotient_chunks) ==
    \E i \in 1 .. Len(quotient_chunks) : i > Len(zps) /\ quotient_chunks[i] # <<>>

\* chunks_exact(D), each chunk recombined over the monomial basis
unflatten(v) ==
    [c \in 1 .. (Len(v) \div D) |->
        ESum([e \in 1 .. D |-> EMul(monomial(e - 1), v[(c - 1) * D + e])])]

\* (local, next) of an opened trace, empty rows when it is absent
LocalNext(opened) ==
    IF IsSome(opened)
    THEN <<Unwrap(opened).local, Unwrap(opened).next>>
    ELSE <<<<>>, <<>>>>

\* (local, next) of the opened permutation trace, unflattened
UnflattenedLocalNext(opened) ==
    IF IsSome(opened)
    THEN <<unflatten(Unwrap(opened).local), unflatten(Unwrap(opened).next)>>
    ELSE <<<<>>, <<>>>>

\* air.eval_all(&mut folder): the AIR asserts its constraint values in order
RECURSIVE EvalAll(_, _)
EvalAll(f, asserted) ==
    IF asserted = <<>> THEN f
    ELSE EvalAll(VerifierAssertZeroExt(f, asserted[1]), Tail(asserted))

Panicked(message, zps) ==
    [outcome |-> "panic", message |-> message, zps |-> zps, quotient |-> Zero,
     sels |-> None, views |-> None, accumulator |-> Zero]

OutcomeInverted(folded_constraints, inv_zeroifier, quotient) ==
    IF EMul(folded_constraints, inv_zeroifier) = quotient
    THEN "Err(OodEvaluationMismatch)"
    ELSE "Ok"

Outcome(folded_constraints, inv_zeroifier, quotient) ==
    IF EMul(folded_constraints, inv_zeroifier) # quotient
    THEN "Err(OodEvaluationMismatch)"
    ELSE "Ok"

verify_constraints(in) ==
    LET zps == Zps(in.qc_domains, in.zeta)
        chunks == in.opened_values.quotient_chunks
    IN  IF ~IsSome(chunks) THEN Panicked("Quotient should be present", zps)
        ELSE IF ZpsIndexPanics(zps, Unwrap(chunks))
             THEN Panicked("index out of bounds", zps)
        ELSE
            LET quotient == Quotient(zps, Unwrap(chunks))
                sels == selectors_at_point(in.main_domain, in.zeta)
                views == [preprocessed |-> LocalNext(in.opened_values.preprocessed),
                          main |-> LocalNext(in.opened_values.main),
                          perm |-> UnflattenedLocalNext(in.opened_values.permutation),
                          cumulative_sum |-> IF IsSome(in.cumulative_sum)
                                             THEN Unwrap(in.cumulative_sum) ELSE Zero]
                folded == EvalAll([IdleFolder EXCEPT !.alpha = in.alpha], in.asserted)
            IN  [outcome |-> Outcome(folded.verifier, sels.inv_zeroifier, quotient),
                 message |-> "", zps |-> zps, quotient |-> quotient,
                 sels |-> Some(sels), views |-> Some(views),
                 accumulator |-> folded.verifier]

\* opened quotient chunks and quotient-chunk domains of one chip
MaxChunks == 2

QcDomains == {Domain(0, 2), Domain(0, 3), Domain(0, 4), Domain(1, 2)}
MainDomains == {Domain(0, 1), Domain(1, 1)}

\* the chunk domains of a quotient domain are pairwise disjoint cosets
Disjoint(ds) ==
    \A i, j \in 1 .. Len(ds) :
        i # j => zp_at_base_point(ds[j], first_point(ds[i])) # 0

QcDomainLists ==
    {ds \in UNION {[1 .. n -> QcDomains] : n \in 1 .. MaxChunks} : Disjoint(ds)}

Zetas == {<<1, 2>>, <<0, 1>>}
VerifyAlphas == {<<1, 2>>, <<2, 0>>}

\* an opened chunk has D elements, or none
ChunkVals ==
    { << <<1, 0>>, <<0, 0>> >>, << <<2, 1>>, <<1, 3>> >>, << <<0, 0>>, <<4, 0>> >>, <<>> }

QuotientChunks ==
    {None} \cup {Some(chs) : chs \in UNION {[1 .. n -> ChunkVals] : n \in 0 .. MaxChunks}}

AssertedSeqs ==
    { <<>>, << <<1, 0>> >>, << <<1, 0>>, <<2, 3>> >>, << <<2, 3>>, <<1, 0>> >> }

OpenedRows ==
    { [preprocessed |-> None, main |-> None, permutation |-> None,
       cumulative_sum |-> None],
      [preprocessed |-> None,
       main |-> Some([local |-> << <<1, 2>> >>, next |-> << <<3, 0>> >>]),
       permutation |-> Some([local |-> << <<1, 0>>, <<2, 0>>, <<4, 1>>, <<0, 3>> >>,
                             next |-> << <<0, 1>>, <<1, 1>>, <<3, 0>>, <<2, 2>> >>]),
       cumulative_sum |-> Some(<<3, 1>>)],
      [preprocessed |-> Some([local |-> << <<4, 0>> >>, next |-> << <<1, 1>> >>]),
       main |-> Some([local |-> << <<1, 2>> >>, next |-> << <<3, 0>> >>]),
       permutation |-> None,
       cumulative_sum |-> None] }

VerifyInputs ==
    {[opened_values |-> [preprocessed |-> o.preprocessed, main |-> o.main,
                         permutation |-> o.permutation, quotient_chunks |-> q],
      main_domain |-> md, qc_domains |-> ds, zeta |-> z, alpha |-> a,
      cumulative_sum |-> o.cumulative_sum, asserted |-> cs] :
        o \in OpenedRows, q \in QuotientChunks, md \in MainDomains,
        ds \in QcDomainLists, z \in Zetas, a \in VerifyAlphas, cs \in AssertedSeqs}

InitVerify ==
    /\ chips = <<>>
    /\ random_elements = <<Zero, Zero>>
    /\ perms = <<>>
    /\ rowres = {}
    /\ cumsum = "pending"
    /\ folder = IdleFolder
    /\ \E in \in VerifyInputs : verif = [input |-> Some(in), result |-> None]
    /\ airck = IdleAirCheck
    /\ machine = IdleMachine
    /\ flat = IdleFlat /\ sumck = IdleSumCheck

VerifyConstraints ==
    /\ IsSome(verif.input)
    /\ ~IsSome(verif.result)
    /\ verif' = [verif EXCEPT !.result = Some(verify_constraints(Unwrap(verif.input)))]
    /\ UNCHANGED <<chips, random_elements, perms, rowres, cumsum, folder, airck, machine, flat, sumck>>

NextVerify == VerifyConstraints

SpecVerify == InitVerify /\ [][NextVerify]_vars

VerifyInput == Unwrap(verif.input)
VerifyResult == Unwrap(verif.result)
Returned == IsSome(verif.result) /\ VerifyResult.outcome # "panic"
OpenedChunks == Unwrap(VerifyInput.opened_values.quotient_chunks)

\* Z_Dj(zeta) * Z_Dj(first_point(D_i))^(-1), computed in the extension field
LagrangeFactor(i, j) ==
    LET ds == VerifyInput.qc_domains
    IN  EMul(zp_at_point(ds[j], VerifyInput.zeta),
             EInv(zp_at_point(ds[j], from_f(first_point(ds[i])))))

RECURSIVE LagrangeWeight(_, _)
LagrangeWeight(i, others) ==
    IF others = {} THEN One
    ELSE LET j == CHOOSE x \in others : TRUE
         IN  EMul(LagrangeFactor(i, j), LagrangeWeight(i, others \ {j}))

\* the extension-field value of chunk i: sum over e of monomial(e) * chunk[i][e]
ChunkExtValue(i) ==
    IF OpenedChunks[i] = <<>> THEN Zero
    ELSE EAdd(EMul(<<1, 0>>, OpenedChunks[i][1]), EMul(<<0, 1>>, OpenedChunks[i][2]))

RECURSIVE RecomposedQuotient(_)
RecomposedQuotient(n) ==
    IF n = 0 THEN Zero
    ELSE IF OpenedChunks[n] = <<>> THEN RecomposedQuotient(n - 1)
    ELSE EAdd(RecomposedQuotient(n - 1),
              EMul(LagrangeWeight(n, (1 .. Len(VerifyInput.qc_domains)) \ {n}),
                   ChunkExtValue(n)))

\* C6: when verify_constraints returns, it returns Err(OodEvaluationMismatch)
\* exactly when accumulator * inv_zeroifier differs from the quotient
\* recomposed from the opened chunks at zeta, Ok(()) exactly when they are
\* equal, and no other error value.
C6_OodMismatchIffDiffers ==
    Returned =>
        LET folded == ClosedForm(VerifyInput.alpha, VerifyInput.asserted)
            inv_zeroifier == EInv(zp_at_point(VerifyInput.main_domain, VerifyInput.zeta))
            differs == EMul(folded, inv_zeroifier) # RecomposedQuotient(Len(OpenedChunks))
        IN  /\ VerifyResult.outcome \in {"Ok", "Err(OodEvaluationMismatch)"}
            /\ VerifyResult.outcome = "Err(OodEvaluationMismatch)" <=> differs
            /\ VerifyResult.outcome = "Ok" <=> ~differs

C6_Witness ==
    /\ Returned
    /\ VerifyResult.outcome = "Ok"
    /\ VerifyResult.quotient # Zero
    /\ Len(VerifyInput.asserted) = 2
    /\ Len(OpenedChunks) = 2

\* the shape of the opened values does not match the chip: no quotient chunks,
\* or a number of chunks other than the number of qc_domains
BadShape ==
    \/ ~IsSome(VerifyInput.opened_values.quotient_chunks)
    \/ Len(OpenedChunks) # Len(VerifyInput.qc_domains)

\* C7: given opened values of the wrong shape (quotient_chunks absent, or a
\* number of opened chunks other than the number of qc_domains),
\* verify_constraints returns an error of the verification-error taxonomy;
\* it neither panics nor accepts the proof.
C7_BadShapeReturnsError ==
    (IsSome(verif.result) /\ BadShape) =>
        VerifyResult.outcome \in {"Err(MissingProofData)", "Err(InvalidProofShape)"}

\* C9: the quotient compared against is the sum over chunks i of
\* zps[i] * (sum over e of monomial(e) * chunk[i][e]), zps[i] being the product
\* over all j # i of Z_Dj(zeta) * Z_Dj(first_point(D_i))^(-1); with a single
\* chunk zps[0] = 1 and the quotient is the chunk's own extension-field value.
C9_QuotientRecomposition ==
    (Returned /\ ~BadShape) =>
        LET n == Len(VerifyInput.qc_domains)
        IN  /\ \A i \in 1 .. n :
                VerifyResult.zps[i] = LagrangeWeight(i, (1 .. n) \ {i})
            /\ VerifyResult.quotient = RecomposedQuotient(n)
            /\ n = 1 => /\ VerifyResult.zps[1] = One
                        /\ VerifyResult.quotient = ChunkExtValue(1)

C9_Witness ==
    /\ Returned
    /\ ~BadShape
    /\ Len(VerifyInput.qc_domains) = 2
    /\ VerifyResult.zps[1] # One
    /\ VerifyResult.zps[1] # VerifyResult.zps[2]
    /\ ChunkExtValue(1) # Zero
    /\ ChunkExtValue(2) # Zero
    /\ VerifyResult.quotient # Zero

(***************************************************************************)
(* check_constraints of air-util (src/air-util/src/check_constraints.rs)   *)
(***************************************************************************)
\* row_slice(i) of a dense matrix is defined for i < height and panics otherwise
InRange(m, i) == i < Height(m)

\* the height check_constraints iterates over
AirCheckHeight(in) ==
    IF IsSome(in.main) /\ IsSome(in.preprocessed)
    THEN IF Height(Unwrap(in.main)) >= Height(Unwrap(in.preprocessed))
         THEN Height(Unwrap(in.main)) ELSE Height(Unwrap(in.preprocessed))
    ELSE IF IsSome(in.main) THEN Height(Unwrap(in.main))
    ELSE IF IsSome(in.preprocessed) THEN Height(Unwrap(in.preprocessed))
    ELSE 0

\* assert_eq!(perm.height(), height)
AirCheckPermAssertion(in) ==
    IsSome(in.perm) => Height(Unwrap(in.perm)) = AirCheckHeight(in)

\* i_next
IndexNext(i, height) == (i + 1) % height

AirLocalNextSameRow(trace, i, i_next) ==
    IF IsSome(trace)
    THEN [local |-> RowSlice(Unwrap(trace), i), next |-> RowSlice(Unwrap(trace), i)]
    ELSE [local |-> <<>>, next |-> <<>>]

\* (local, next) of one trace on row i: empty rows for an absent trace
AirLocalNext(trace, i, i_next) ==
    IF IsSome(trace)
    THEN [local |-> RowSlice(Unwrap(trace), i), next |-> RowSlice(Unwrap(trace), i_next)]
    ELSE [local |-> <<>>, next |-> <<>>]

\* row_slice(i) or row_slice(i_next) of a present trace is out of range
SlicePanics(trace, i, i_next) ==
    IsSome(trace) /\ ~(InRange(Unwrap(trace), i) /\ InRange(Unwrap(trace), i_next))

\* some row_slice of row i's closure is out of range
AirRowPanics(in, i) ==
    LET i_next == IndexNext(i, AirCheckHeight(in))
    IN  \/ SlicePanics(in.preprocessed, i, i_next)
        \/ SlicePanics(in.main, i, i_next)
        \/ SlicePanics(in.perm, i, i_next)

\* the DebugConstraintBuilder of row i
AirBuilder(in, i) ==
    LET height == AirCheckHeight(in)
        i_next == IndexNext(i, height)
        sels == Selectors(i, height)
    IN  [row_index |-> i,
         preprocessed |-> AirLocalNext(in.preprocessed, i, i_next),
         main |-> AirLocalNext(in.main, i, i_next),
         permutation |-> AirLocalNext(in.perm, i, i_next),
         cumulative_sum |-> IF IsSome(in.cumulative_sum)
                            THEN Unwrap(in.cumulative_sum) ELSE Zero,
         is_first_row |-> sels.is_first_row,
         is_last_row |-> sels.is_last_row,
         is_transition |-> sels.is_transition]

AirMainRows == {<<1, 1>>, <<3, 2>>}
AirPermRows == {<< <<1, 2>> >>, << <<0, 4>> >>}

OptionalMatrices(rows, width) ==
    {None} \cup {Some(m) : m \in UNION {MatricesOf(rows, width, h) : h \in 0 .. MaxHeight}}

AirCheckInputs ==
    {[preprocessed |-> pre, main |-> main, perm |-> perm,
      cumulative_sum |-> IF IsSome(perm) THEN Some(<<3, 1>>) ELSE None] :
        pre \in OptionalMatrices(PreprocessedRows, 1),
        main \in OptionalMatrices(AirMainRows, 2),
        perm \in OptionalMatrices(AirPermRows, 1)}

InitAirCheck ==
    /\ chips = <<>>
    /\ random_elements = <<Zero, Zero>>
    /\ perms = <<>>
    /\ rowres = {}
    /\ cumsum = "pending"
    /\ folder = IdleFolder
    /\ verif = IdleVerif
    /\ \E in \in AirCheckInputs :
        airck = [input |-> Some(in), status |-> "called", rows |-> {}]
    /\ machine = IdleMachine
    /\ flat = IdleFlat /\ sumck = IdleSumCheck

\* the height is computed and the permutation height asserted
AirCheckStart ==
    /\ airck.status = "called"
    /\ airck' = [airck EXCEPT !.status =
            IF AirCheckPermAssertion(Unwrap(airck.input)) THEN "running"
            ELSE "assert_failed"]
    /\ UNCHANGED <<chips, random_elements, perms, rowres, cumsum, folder, verif, machine, flat, sumck>>

\* one iteration of the parallel loop over 0 .. height - 1, in any order
AirCheckRow ==
    /\ airck.status = "running"
    /\ \E i \in 0 .. (AirCheckHeight(Unwrap(airck.input)) - 1) :
        /\ ~ \E b \in airck.rows : b.row_index = i
        /\ airck' = IF AirRowPanics(Unwrap(airck.input), i)
                    THEN [airck EXCEPT !.status = "index_panic"]
                    ELSE [airck EXCEPT !.rows = @ \cup {AirBuilder(Unwrap(airck.input), i)}]
    /\ UNCHANGED <<chips, random_elements, perms, rowres, cumsum, folder, verif, machine, flat, sumck>>

\* every row has been evaluated
AirCheckReturn ==
    /\ airck.status = "running"
    /\ \A i \in 0 .. (AirCheckHeight(Unwrap(airck.input)) - 1) :
        \E b \in airck.rows : b.row_index = i
    /\ airck' = [airck EXCEPT !.status = "ok"]
    /\ UNCHANGED <<chips, random_elements, perms, rowres, cumsum, folder, verif, machine, flat, sumck>>

NextAirCheck == AirCheckStart \/ AirCheckRow \/ AirCheckReturn

SpecAirCheck == InitAirCheck /\ [][NextAirCheck]_vars

(***************************************************************************)
(* The two-row views of the debug builder and of the verifier              *)
(***************************************************************************)
ViewVerifyInputs ==
    {[opened_values |-> [preprocessed |-> o.preprocessed, main |-> o.main,
                         permutation |-> o.permutation,
                         quotient_chunks |-> Some(<< << <<2, 1>>, <<1, 3>> >> >>)],
      main_domain |-> Domain(1, 1), qc_domains |-> <<Domain(1, 2)>>,
      zeta |-> <<1, 2>>, alpha |-> <<2, 0>>,
      cumulative_sum |-> o.cumulative_sum, asserted |-> << <<1, 0>> >>] :
        o \in OpenedRows}

InitViews ==
    /\ chips = <<>>
    /\ random_elements = <<Zero, Zero>>
    /\ perms = <<>>
    /\ rowres = {}
    /\ cumsum = "pending"
    /\ folder = IdleFolder
    /\ \E in \in ViewVerifyInputs : verif = [input |-> Some(in), result |-> None]
    /\ \E in \in AirCheckInputs :
        airck = [input |-> Some(in), status |-> "called", rows |-> {}]
    /\ machine = IdleMachine
    /\ flat = IdleFlat /\ sumck = IdleSumCheck

NextViews == AirCheckStart \/ AirCheckRow \/ AirCheckReturn \/ VerifyConstraints

SpecViews == InitViews /\ [][NextViews]_vars

AirInput == Unwrap(airck.input)

\* row r of a row-major matrix, read off its values
MatrixRow(m, r) == SubSeq(m.values, r * m.width + 1, (r + 1) * m.width)

\* the view of one trace on row i is (row i, row (i+1) mod height of the trace),
\* or two empty rows when the trace is absent
ViewIsWrapped(trace, view, i) ==
    IF IsSome(trace)
    THEN /\ view.local = MatrixRow(Unwrap(trace), i)
         /\ view.next = MatrixRow(Unwrap(trace), (i + 1) % Height(Unwrap(trace)))
    ELSE view.local = <<>> /\ view.next = <<>>

\* the verifier's view of one opened trace: its two opened rows, or two empty rows
OpenedViewIs(opened, view, width_divisor) ==
    IF IsSome(opened)
    THEN /\ Len(view[1]) = Len(Unwrap(opened).local) \div width_divisor
         /\ Len(view[2]) = Len(Unwrap(opened).next) \div width_divisor
    ELSE view = <<<<>>, <<>>>>

\* C11: on every row i the debug builder's view of each present trace is
\* local = row i, next = row (i+1) mod height (the last row's next is row 0);
\* for an absent trace both rows are empty, and the selectors are set all the
\* same. The views verify_constraints builds from the opened values follow the
\* same absent-means-empty rule.
C11_TwoRowViews ==
    /\ \A b \in airck.rows :
        /\ ViewIsWrapped(AirInput.preprocessed, b.preprocessed, b.row_index)
        /\ ViewIsWrapped(AirInput.main, b.main, b.row_index)
        /\ ViewIsWrapped(AirInput.perm, b.permutation, b.row_index)
        /\ b.is_first_row = 1 <=> b.row_index = 0
        /\ b.is_last_row = 1 <=> b.row_index = AirCheckHeight(AirInput) - 1
        /\ {b.is_first_row, b.is_last_row} \subseteq {0, 1}
        /\ b.is_transition = 1 - b.is_last_row
    /\ (IsSome(verif.result) /\ VerifyResult.outcome # "panic") =>
        LET views == Unwrap(VerifyResult.views)
            opened == VerifyInput.opened_values
        IN  /\ OpenedViewIs(opened.preprocessed, views.preprocessed, 1)
            /\ OpenedViewIs(opened.main, views.main, 1)
            /\ OpenedViewIs(opened.permutation, views.perm, D)
            /\ IsSome(opened.main) =>
                    views.main = <<Unwrap(opened.main).local, Unwrap(opened.main).next>>
            /\ IsSome(opened.preprocessed) =>
                    views.preprocessed = <<Unwrap(opened.preprocessed).local,
                                           Unwrap(opened.preprocessed).next>>
            /\ IsSome(VerifyResult.sels)

C11_Witness ==
    /\ IsSome(AirInput.main)
    /\ ~IsSome(AirInput.preprocessed)
    /\ IsSome(AirInput.perm)
    /\ \E b \in airck.rows :
        /\ b.row_index = 1
        /\ b.is_last_row = 1
        /\ b.main.next = MatrixRow(Unwrap(AirInput.main), 0)
        /\ b.main.next # b.main.local
        /\ b.preprocessed.local = <<>>
    /\ IsSome(verif.result)
    /\ ~IsSome(VerifyInput.opened_values.permutation)
    /\ Unwrap(VerifyResult.views).perm = <<<<>>, <<>>>>
    /\ Unwrap(VerifyResult.views).main[1] # <<>>

EvaluatedRows == {b.row_index : b \in airck.rows}

\* C12: check_constraints evaluates the constraints on exactly the rows
\* 0 .. height-1, height being the maximum of the heights of the present main
\* and preprocessed traces (0 when both are absent), also when the two heights
\* differ; a present permutation trace of another height fails the assertion
\* before any row is evaluated.
C12_RowsExactlyZeroToHeight ==
    /\ ~AirCheckPermAssertion(AirInput) =>
        /\ airck.rows = {}
        /\ airck.status \in {"called", "assert_failed"}
    /\ (AirCheckPermAssertion(AirInput) /\ airck.status \notin {"called", "running"}) =>
        /\ airck.status = "ok"
        /\ EvaluatedRows = 0 .. (AirCheckHeight(AirInput) - 1)

\* the same for present main and preprocessed traces of one height
C12_RowsExactlyZeroToHeightEqualHeights ==
    ((IsSome(AirInput.main) /\ IsSome(AirInput.preprocessed))
        => Height(Unwrap(AirInput.main)) = Height(Unwrap(AirInput.preprocessed)))
    => C12_RowsExactlyZeroToHeight

(***************************************************************************)
(* The machine trace pipeline (src/machine/src/trace.rs)                   *)
(***************************************************************************)
\* the generator of the multiplicative group of the base field
Generator == 2

RECURSIVE log2_ceil_usize(_)
log2_ceil_usize(n) == IF n <= 1 THEN 0 ELSE 1 + log2_ceil_usize((n + 1) \div 2)

\* defined for the powers of two
RECURSIVE log2_strict_usize(_)
log2_strict_usize(n) == IF n = 1 THEN 0 ELSE 1 + log2_strict_usize(n \div 2)

\* the domains of a two-adic PCS
natural_domain_for_degree(degree) == Domain(log2_strict_usize(degree), 1)
create_disjoint_domain(d, min_size) ==
    Domain(log2_ceil_usize(min_size), FMul(d.shift, Generator))
split_domains(d, num_chunks) ==
    LET log_chunks == log2_strict_usize(num_chunks)
    IN  [i \in 1 .. num_chunks |->
            Domain(d.log_n - log_chunks,
                   FMul(d.shift, FPow(two_adic_generator(d.log_n), i - 1)))]

\* chunk i holds the rows i, i + num_chunks, i + 2 * num_chunks, ...
split_evals(num_chunks, evals) ==
    [i \in 1 .. num_chunks |->
        RowMajorMatrix(
            Concat([r \in 1 .. (Height(evals) \div num_chunks) |->
                        RowSlice(evals, (r - 1) * num_chunks + (i - 1))]),
            evals.width)]

\* Matrix::flatten_to_base: the D coefficients of every element, in order
FlattenToBaseReversed(m) ==
    RowMajorMatrix(Concat([i \in 1 .. Len(m.values) |->
                                [e \in 1 .. D |-> m.values[i][D + 1 - e]]]),
                   m.width * D)

\* Trace::flatten_to_base: every extension element becomes its D coefficients
flatten_to_base(m) ==
    RowMajorMatrix(Concat([i \in 1 .. Len(m.values) |-> m.values[i]]), m.width * D)

Trace(value, domain) == [value |-> value, domain |-> domain]
IndexedTrace(trace, opening_index) == [trace |-> trace, opening_index |-> opening_index]
QuotientTrace(traces, opening_index) == [traces |-> traces, opening_index |-> opening_index]

\* ChipTrace::new
NewChipTrace ==
    [preprocessed |-> None, main |-> None, permutation |-> None,
     cumulative_sum |-> None, quotient_chunks |-> None, quotient_degree |-> None]

\* ChipTrace::domain
ChipTraceDomain(ct) ==
    IF IsSome(ct.preprocessed) /\ IsSome(ct.main)
    THEN IF Size(Unwrap(ct.main).trace.domain) > Size(Unwrap(ct.preprocessed).trace.domain)
         THEN Some(Unwrap(ct.main).trace.domain)
         ELSE Some(Unwrap(ct.preprocessed).trace.domain)
    ELSE IF IsSome(ct.preprocessed) THEN Some(Unwrap(ct.preprocessed).trace.domain)
    ELSE IF IsSome(ct.main) THEN Some(Unwrap(ct.main).trace.domain)
    ELSE None

RECURSIVE LoadTracesCountingAll(_, _, _)
LoadTracesCountingAll(traces, i, count) ==
    IF i > Len(traces) THEN <<>>
    ELSE IF IsSome(traces[i]) /\ Height(Unwrap(traces[i])) > 0
         THEN <<Some(IndexedTrace(
                    Trace(Unwrap(traces[i]),
                          natural_domain_for_degree(Height(Unwrap(traces[i])))),
                    count))>>
              \o LoadTracesCountingAll(traces, i + 1, count + 1)
         ELSE <<None>> \o LoadTracesCountingAll(traces, i + 1, count + 1)

\* the scan of load_traces from chip i on, count being the next opening index
RECURSIVE LoadTracesFrom(_, _, _)
LoadTracesFrom(traces, i, count) ==
    IF i > Len(traces) THEN <<>>
    ELSE IF IsSome(traces[i]) /\ Height(Unwrap(traces[i])) > 0
         THEN <<Some(IndexedTrace(
                    Trace(Unwrap(traces[i]),
                          natural_domain_for_degree(Height(Unwrap(traces[i])))),
                    count))>>
              \o LoadTracesFrom(traces, i + 1, count + 1)
         ELSE <<None>> \o LoadTracesFrom(traces, i + 1, count)

load_traces(traces) == LoadTracesFrom(traces, 1, 0)

\* flat_map over the chips: the present traces, in chip order
RECURSIVE PresentTraces(_, _)
PresentTraces(options, i) ==
    IF i > Len(options) THEN <<>>
    ELSE (IF IsSome(options[i]) THEN <<Unwrap(options[i])>> ELSE <<>>)
         \o PresentTraces(options, i + 1)

CommitTracesAlways(traces) ==
    LET domains_and_traces == [i \in 1 .. Len(traces) |-> <<traces[i].domain, traces[i].value>>]
    IN  [calls |-> <<domains_and_traces>>,
         result |-> <<Some([commitment_to |-> domains_and_traces]),
                      Some([data_of |-> domains_and_traces])>>]

\* commit_traces: the calls made to pcs.commit and the pair returned
commit_traces(traces) ==
    LET domains_and_traces == [i \in 1 .. Len(traces) |-> <<traces[i].domain, traces[i].value>>]
    IN  IF domains_and_traces # <<>>
        THEN [calls |-> <<domains_and_traces>>,
              result |-> <<Some([commitment_to |-> domains_and_traces]),
                           Some([data_of |-> domains_and_traces])>>]
        ELSE [calls |-> <<>>, result |-> <<None, None>>]

\* the value of an optional indexed trace
TraceValue(indexed) == IF IsSome(indexed) THEN Some(Unwrap(indexed).trace.value) ELSE None

\* generate_permutation_trace on optional traces: main is required or empty,
\* and the trace has width k + 1 over the rows of main; there is always a trace
PermutationTraceOption(preprocessed, main, chip, rand) ==
    LET rows == IF IsSome(main) THEN Unwrap(main) ELSE RowMajorMatrix(<<>>, 1)
    IN  Some(generate_permutation_trace(
                Chip(rows, preprocessed,
                     [sends |-> chip.sends, receives |-> chip.receives], None),
                rows, rand))

\* load_preprocessed / generate_preprocessed
load_preprocessed(mt, traces) ==
    LET loaded == load_traces(traces)
    IN  [i \in 1 .. Len(mt) |-> [mt[i] EXCEPT !.preprocessed = loaded[i]]]

\* a load_main that also resets the preprocessed slot
LoadMainResettingPreprocessed(mt, traces) ==
    LET loaded == load_traces(traces)
    IN  [i \in 1 .. Len(mt) |-> [mt[i] EXCEPT !.main = loaded[i], !.preprocessed = None]]

load_main(mt, traces) ==
    LET loaded == load_traces(traces)
    IN  [i \in 1 .. Len(mt) |-> [mt[i] EXCEPT !.main = loaded[i]]]

\* the traces generate_permutation computes, one per chip
PermutationTraces(mt, machine_chips, perm_challenges) ==
    [i \in 1 .. Len(mt) |->
        PermutationTraceOption(TraceValue(mt[i].preprocessed), TraceValue(mt[i].main),
                               machine_chips[i], perm_challenges)]

\* trace.row_slice(trace.height() - 1) of a trace without rows
CumulativeSumPanics(traces) ==
    \E i \in 1 .. Len(traces) : IsSome(traces[i]) /\ Height(Unwrap(traces[i])) = 0

generate_permutation(mt, machine_chips, perm_challenges) ==
    LET traces == PermutationTraces(mt, machine_chips, perm_challenges)
        cumulative_sums ==
            [i \in 1 .. Len(mt) |->
                IF IsSome(traces[i]) THEN Some(CumulativeSumOf(Unwrap(traces[i]))) ELSE None]
        loaded == load_traces(traces)
    IN  [i \in 1 .. Len(mt) |->
            [mt[i] EXCEPT !.permutation = loaded[i],
                          !.cumulative_sum = cumulative_sums[i]]]

\* quotient_values: one extension-field value per point of the quotient domain
QuotientValues(chip_index, quotient_domain) ==
    [y \in 1 .. Size(quotient_domain) |-> <<(chip_index + y) % P, y % P>>]

QuotientChunksOfOne(chip_index, trace_domain, quotient_degree) ==
    LET quotient_domain ==
            create_disjoint_domain(trace_domain, Size(trace_domain) * quotient_degree)
        quotient_flat ==
            flatten_to_base(RowMajorMatrix(QuotientValues(chip_index, quotient_domain), 1))
    IN  <<Trace(quotient_flat, quotient_domain)>>

\* the chunk traces of one chip: split_evals zipped with split_domains
QuotientChunksOf(chip_index, trace_domain, quotient_degree) ==
    LET quotient_domain ==
            create_disjoint_domain(trace_domain, Size(trace_domain) * quotient_degree)
        quotient_flat ==
            flatten_to_base(RowMajorMatrix(QuotientValues(chip_index, quotient_domain), 1))
        chunks == split_evals(quotient_degree, quotient_flat)
        chunk_domains == split_domains(quotient_domain, quotient_degree)
    IN  [i \in 1 .. quotient_degree |-> Trace(chunks[i], chunk_domains[i])]

\* the preprocessed width generate_quotient passes to get_quotient_degree
\* for a chip trace: the literal 0
preprocessed_width_argument(chip_trace) == 0

\* get_quotient_degree(chip, preprocessed_width): the degree the symbolic
\* builder finds for the chip
get_quotient_degree(chip, preprocessed_width) == chip.quotient_degree

\* a loop that advances count by the number of chunks
RECURSIVE GenerateQuotientCountingChunks(_, _, _, _)
GenerateQuotientCountingChunks(mt, machine_chips, i, count) ==
    IF i > Len(mt) THEN <<>>
    ELSE LET quotient_degree ==
                get_quotient_degree(machine_chips[i], preprocessed_width_argument(mt[i]))
             trace_domain == ChipTraceDomain(mt[i])
         IN  IF IsSome(trace_domain)
             THEN <<[mt[i] EXCEPT !.quotient_chunks =
                        Some(QuotientTrace(
                            QuotientChunksOf(i, Unwrap(trace_domain), quotient_degree),
                            count))]>>
                  \o GenerateQuotientCountingChunks(mt, machine_chips, i + 1,
                                                    count + quotient_degree)
             ELSE <<mt[i]>> \o GenerateQuotientCountingChunks(mt, machine_chips, i + 1, count)

\* the loop of generate_quotient from chip i on, count being the next index
RECURSIVE GenerateQuotientFrom(_, _, _, _)
GenerateQuotientFrom(mt, machine_chips, i, count) ==
    IF i > Len(mt) THEN <<>>
    ELSE LET quotient_degree ==
                get_quotient_degree(machine_chips[i], preprocessed_width_argument(mt[i]))
             trace_domain == ChipTraceDomain(mt[i])
         IN  IF IsSome(trace_domain)
             THEN <<[mt[i] EXCEPT !.quotient_chunks =
                        Some(QuotientTrace(
                            QuotientChunksOf(i, Unwrap(trace_domain), quotient_degree),
                            count))]>>
                  \o GenerateQuotientFrom(mt, machine_chips, i + 1, count + 1)
             ELSE <<mt[i]>> \o GenerateQuotientFrom(mt, machine_chips, i + 1, count)

\* preprocessed_data / main_data / permutation_data .as_ref().unwrap()
QuotientDataPanics(mt, preprocessed_data, main_data, permutation_data) ==
    \E i \in 1 .. Len(mt) :
        /\ IsSome(ChipTraceDomain(mt[i]))
        /\ \/ IsSome(mt[i].preprocessed) /\ ~IsSome(preprocessed_data)
           \/ IsSome(mt[i].main) /\ ~IsSome(main_data)
           \/ IsSome(mt[i].permutation) /\ ~IsSome(permutation_data)

generate_quotient(mt, machine_chips) == GenerateQuotientFrom(mt, machine_chips, 1, 0)

\* the traces each commit stage hands to commit_traces
PreprocessedBatch(mt) ==
    PresentTraces([i \in 1 .. Len(mt) |->
        IF IsSome(mt[i].preprocessed) THEN Some(Unwrap(mt[i].preprocessed).trace) ELSE None], 1)

MainBatch(mt) ==
    PresentTraces([i \in 1 .. Len(mt) |->
        IF IsSome(mt[i].main) THEN Some(Unwrap(mt[i].main).trace) ELSE None], 1)

PermutationBatch(mt) ==
    PresentTraces([i \in 1 .. Len(mt) |->
        IF IsSome(mt[i].permutation)
        THEN Some(Trace(flatten_to_base(Unwrap(mt[i].permutation).trace.value),
                        Unwrap(mt[i].permutation).trace.domain))
        ELSE None], 1)

QuotientBatch(mt) ==
    Concat(PresentTraces([i \in 1 .. Len(mt) |->
        IF IsSome(mt[i].quotient_chunks)
        THEN Some(Unwrap(mt[i].quotient_chunks).traces) ELSE None], 1))

\* ---- the machines the pipeline runs on

MaxChips == 2

\* the one-column preprocessed and two-column main trace of chip c with h rows
PreprocessedOf(c, h) == RowMajorMatrix(Concat([n \in 1 .. h |-> <<c>>]), 1)
MainOf(c, h) == RowMajorMatrix(Concat([n \in 1 .. h |-> <<c, 1>>]), 2)

NoInteractions == [sends |-> <<>>, receives |-> <<>>]
OneSend == [sends |-> <<Interaction(<<SingleMain(0)>>, SingleMain(1), 0)>>, receives |-> <<>>]

\* the chips of the machines: the heights of the preprocessed and main trace
\* (-1: no trace), the interactions, the quotient degree. The quotient domain
\* must fit the two-adic subgroup of the field
MachineConfigs ==
    {<<<<-1, -1>>, NoInteractions, 1>>,
     <<<<-1, -1>>, OneSend, 1>>,
     <<<<0, 0>>, NoInteractions, 1>>,
     <<<<0, -1>>, NoInteractions, 1>>,
     <<<<-1, 1>>, OneSend, 1>>,
     <<<<-1, 1>>, NoInteractions, 2>>,
     <<<<1, -1>>, NoInteractions, 1>>,
     <<<<1, -1>>, NoInteractions, 2>>,
     <<<<1, 1>>, OneSend, 2>>,
     <<<<2, 2>>, OneSend, 1>>,
     <<<<0, 2>>, NoInteractions, 1>>}

MachineChip(c, shape, ia, quotient_degree) ==
    [preprocessed |-> IF shape[1] < 0 THEN None ELSE Some(PreprocessedOf(c, shape[1])),
     main |-> IF shape[2] < 0 THEN None ELSE Some(MainOf(c, shape[2])),
     sends |-> ia.sends, receives |-> ia.receives,
     quotient_degree |-> quotient_degree]

MachineChipsAt(c) == {MachineChip(c, cfg[1], cfg[2], cfg[3]) : cfg \in MachineConfigs}

Machines ==
    UNION {{m \in [1 .. n -> UNION {MachineChipsAt(c) : c \in 1 .. n}] :
                \A c \in 1 .. n : m[c] \in MachineChipsAt(c)} : n \in 1 .. MaxChips}

\* the permutation challenges [beta, gamma] of the pipeline
MachineChallenges == <<<<1, 2>>, <<4, 0>>>>

NoCommits == [preprocessed |-> None, main |-> None, permutation |-> None, quotient |-> None]

InitMachine ==
    /\ \E m \in Machines :
        machine = [stage |-> "new", chips |-> m,
                   preprocessed_traces |-> [c \in 1 .. Len(m) |-> None],
                   traces |-> [c \in 1 .. Len(m) |-> NewChipTrace],
                   degree_arguments |-> <<>>,
                   commits |-> NoCommits]
    /\ chips = <<>> /\ random_elements = <<>> /\ perms = <<>>
    /\ rowres = {} /\ cumsum = "idle"
    /\ folder = IdleFolder /\ verif = IdleVerif /\ airck = IdleAirCheck
    /\ flat = IdleFlat /\ sumck = IdleSumCheck

OtherVars == <<chips, random_elements, perms, rowres, cumsum, folder, verif, airck, flat, sumck>>

\* generate_preprocessed: the chips' own preprocessed traces are loaded
GeneratePreprocessed ==
    /\ machine.stage = "new"
    /\ LET traces == [c \in 1 .. Len(machine.chips) |-> machine.chips[c].preprocessed]
       IN  machine' = [machine EXCEPT !.stage = "preprocessed",
                          !.preprocessed_traces = traces,
                          !.traces = load_preprocessed(machine.traces, traces)]
    /\ UNCHANGED OtherVars

\* load_preprocessed: the caller hands in the traces, here those of a
\* verifying key that holds them for all chips or for none
LoadPreprocessed ==
    /\ machine.stage = "new"
    /\ \E keep \in BOOLEAN :
        LET traces == [c \in 1 .. Len(machine.chips) |->
                            IF keep THEN machine.chips[c].preprocessed ELSE None]
        IN  machine' = [machine EXCEPT !.stage = "preprocessed",
                           !.preprocessed_traces = traces,
                           !.traces = load_preprocessed(machine.traces, traces)]
    /\ UNCHANGED OtherVars

CommitPreprocessed ==
    /\ machine.stage = "preprocessed"
    /\ machine' = [machine EXCEPT !.stage = "preprocessed_committed",
                      !.commits.preprocessed =
                            Some(commit_traces(PreprocessedBatch(machine.traces)))]
    /\ UNCHANGED OtherVars

LoadMain ==
    /\ machine.stage = "preprocessed_committed"
    /\ LET traces == [c \in 1 .. Len(machine.chips) |-> machine.chips[c].main]
       IN  machine' = [machine EXCEPT !.stage = "main",
                          !.traces = load_main(machine.traces, traces)]
    /\ UNCHANGED OtherVars

CommitMain ==
    /\ machine.stage = "main"
    /\ machine' = [machine EXCEPT !.stage = "main_committed",
                      !.commits.main = Some(commit_traces(MainBatch(machine.traces)))]
    /\ UNCHANGED OtherVars

GeneratePermutation ==
    /\ machine.stage = "main_committed"
    /\ machine' =
        IF CumulativeSumPanics(
                PermutationTraces(machine.traces, machine.chips, MachineChallenges))
        THEN [machine EXCEPT !.stage = "panic"]
        ELSE [machine EXCEPT !.stage = "permutation",
                 !.traces = generate_permutation(machine.traces, machine.chips,
                                                 MachineChallenges)]
    /\ UNCHANGED OtherVars

CommitPermutation ==
    /\ machine.stage = "permutation"
    /\ machine' = [machine EXCEPT !.stage = "permutation_committed",
                      !.commits.permutation =
                            Some(commit_traces(PermutationBatch(machine.traces)))]
    /\ UNCHANGED OtherVars

\* the prover data of a round, as the commit stage returned it
ProverData(round) == Unwrap(round).result[2]

GenerateQuotient ==
    /\ machine.stage = "permutation_committed"
    /\ machine' =
        IF QuotientDataPanics(machine.traces,
                              ProverData(machine.commits.preprocessed),
                              ProverData(machine.commits.main),
                              ProverData(machine.commits.permutation))
        THEN [machine EXCEPT !.stage = "panic"]
        ELSE [machine EXCEPT !.stage = "quotient",
                 !.degree_arguments =
                        [c \in 1 .. Len(machine.traces) |->
                            preprocessed_width_argument(machine.traces[c])],
                 !.traces = generate_quotient(machine.traces, machine.chips)]
    /\ UNCHANGED OtherVars

CommitQuotient ==
    /\ machine.stage = "quotient"
    /\ machine' = [machine EXCEPT !.stage = "quotient_committed",
                      !.commits.quotient =
                            Some(commit_traces(QuotientBatch(machine.traces)))]
    /\ UNCHANGED OtherVars

NextMachine ==
    \/ GeneratePreprocessed \/ LoadPreprocessed \/ CommitPreprocessed
    \/ LoadMain \/ CommitMain
    \/ GeneratePermutation \/ CommitPermutation
    \/ GenerateQuotient \/ CommitQuotient

SpecMachine == InitMachine /\ [][NextMachine]_vars

\* ---- the opening indices and the batches of the commits

StageOrder ==
    <<"new", "preprocessed", "preprocessed_committed", "main", "main_committed",
      "permutation", "permutation_committed", "quotient", "quotient_committed">>

StageNo(stage) == CHOOSE n \in 1 .. Len(StageOrder) : StageOrder[n] = stage

Reached(stage) == machine.stage # "panic" /\ StageNo(machine.stage) >= StageNo(stage)

NumChips == Len(machine.chips)

\* the trace handed to the loader of a round for chip c
RoundInput(round, c) ==
    CASE round = "preprocessed" -> machine.preprocessed_traces[c]
      [] round = "main" -> machine.chips[c].main
      [] round = "permutation" ->
            PermutationTraces(machine.traces, machine.chips, MachineChallenges)[c]

NonEmptyInput(round, c) ==
    IsSome(RoundInput(round, c)) /\ Height(Unwrap(RoundInput(round, c))) > 0

\* the slot of chip c for a round
Slot(round, c) ==
    CASE round = "preprocessed" -> machine.traces[c].preprocessed
      [] round = "main" -> machine.traces[c].main
      [] round = "permutation" -> machine.traces[c].permutation
      [] round = "quotient" -> machine.traces[c].quotient_chunks

\* the matrix of chip c as the commit of a round passes it on
CommittedEntry(round, c) ==
    LET t == Unwrap(Slot(round, c)).trace
    IN  IF round = "permutation" THEN <<t.domain, flatten_to_base(t.value)>>
        ELSE <<t.domain, t.value>>

CommitCalls(round) ==
    CASE round = "preprocessed" -> Unwrap(machine.commits.preprocessed).calls
      [] round = "main" -> Unwrap(machine.commits.main).calls
      [] round = "permutation" -> Unwrap(machine.commits.permutation).calls
      [] round = "quotient" -> Unwrap(machine.commits.quotient).calls

CommitResult(round) ==
    CASE round = "preprocessed" -> Unwrap(machine.commits.preprocessed).result
      [] round = "main" -> Unwrap(machine.commits.main).result
      [] round = "permutation" -> Unwrap(machine.commits.permutation).result
      [] round = "quotient" -> Unwrap(machine.commits.quotient).result

LoadedRounds == {"preprocessed", "main", "permutation"}

CommittedStage(round) ==
    CASE round = "preprocessed" -> "preprocessed_committed"
      [] round = "main" -> "main_committed"
      [] round = "permutation" -> "permutation_committed"
      [] round = "quotient" -> "quotient_committed"

IndicesInChipOrder(round) ==
    \A c \in 1 .. NumChips :
        /\ IsSome(Slot(round, c)) <=> NonEmptyInput(round, c)
        /\ IsSome(Slot(round, c)) =>
                Unwrap(Slot(round, c)).opening_index
                    = Cardinality({d \in 1 .. c - 1 : NonEmptyInput(round, d)})

IndexIsBatchPosition(round) ==
    LET holders == {c \in 1 .. NumChips : IsSome(Slot(round, c))}
    IN  holders # {} =>
            /\ Len(CommitCalls(round)) = 1
            /\ Len(CommitCalls(round)[1]) = Cardinality(holders)
            /\ \A c \in holders :
                    CommitCalls(round)[1][Unwrap(Slot(round, c)).opening_index + 1]
                        = CommittedEntry(round, c)

\* C13: after load_preprocessed, load_main or generate_permutation the chips
\* with a non-empty trace of that round carry the opening indices 0, 1, ...,
\* m - 1 in chip order, counted per round, and the index of a chip is the
\* position of its matrix in the batch the commit of the round passes to
\* pcs.commit
C13_OpeningIndicesAreBatchPositions ==
    \A round \in LoadedRounds :
        /\ Reached(round) => IndicesInChipOrder(round)
        /\ Reached(CommittedStage(round)) => IndexIsBatchPosition(round)

\* a chip without a preprocessed trace stands before one that has it: the
\* second chip carries index 0 in the preprocessed round and index 1 in the
\* main and permutation rounds, and the permutation round is committed
C13_Witness ==
    /\ Reached("permutation_committed")
    /\ NumChips = 2
    /\ ~IsSome(Slot("preprocessed", 1))
    /\ IsSome(Slot("permutation", 1))
    /\ IsSome(Slot("preprocessed", 2)) /\ IsSome(Slot("main", 2))
    /\ IsSome(Slot("permutation", 2))
    /\ Unwrap(Slot("preprocessed", 2)).opening_index = 0
    /\ Unwrap(Slot("main", 2)).opening_index = 1
    /\ Unwrap(Slot("permutation", 2)).opening_index = 1

\* ---- the batches and the results of the commits

AllRounds == {"preprocessed", "main", "permutation", "quotient"}

Holders(round) == {c \in 1 .. NumChips : IsSome(Slot(round, c))}

\* what chip c hands to the commit of a round
EntriesOf(round, c) ==
    IF ~IsSome(Slot(round, c)) THEN <<>>
    ELSE IF round = "quotient"
         THEN LET ts == Unwrap(Slot(round, c)).traces
              IN  [i \in 1 .. Len(ts) |-> <<ts[i].domain, ts[i].value>>]
         ELSE <<CommittedEntry(round, c)>>

RECURSIVE BatchInChipOrder(_, _)
BatchInChipOrder(round, c) ==
    IF c > NumChips THEN <<>>
    ELSE EntriesOf(round, c) \o BatchInChipOrder(round, c + 1)

\* C14: a commit stage of a round no chip holds a trace for returns
\* (None, None) and does not call pcs.commit; otherwise it calls pcs.commit
\* once, with all present traces of the round in chip order, and returns
\* (Some(commitment), Some(prover_data)); the two components are both Some or
\* both None
C14_CommitOnceOrNotAtAll ==
    \A round \in AllRounds :
        Reached(CommittedStage(round)) =>
            /\ Holders(round) = {} =>
                    CommitCalls(round) = <<>> /\ CommitResult(round) = <<None, None>>
            /\ Holders(round) # {} =>
                    /\ CommitCalls(round) = <<BatchInChipOrder(round, 1)>>
                    /\ IsSome(CommitResult(round)[1])
                    /\ IsSome(CommitResult(round)[2])
            /\ IsSome(CommitResult(round)[1]) <=> IsSome(CommitResult(round)[2])

\* all four commits are done: the preprocessed round had no trace, the main
\* round had the traces of two chips
C14_Witness ==
    /\ Reached("quotient_committed")
    /\ Holders("preprocessed") = {}
    /\ Holders("main") = {1, 2}
    /\ Len(CommitCalls("quotient")[1]) >= 3

\* ---- empty chips

AbsentOrEmpty(trace) == ~IsSome(trace) \/ Height(Unwrap(trace)) = 0

EmptyChip(c) ==
    AbsentOrEmpty(machine.chips[c].preprocessed) /\ AbsentOrEmpty(machine.chips[c].main)

\* the batch of a round as the chips that are not empty alone would form it
RECURSIVE BatchWithoutEmpty(_, _)
BatchWithoutEmpty(round, c) ==
    IF c > NumChips THEN <<>>
    ELSE (IF EmptyChip(c) THEN <<>> ELSE EntriesOf(round, c))
         \o BatchWithoutEmpty(round, c + 1)

\* the opening index chip c would carry in a machine without the empty chips
IndexWithoutEmpty(round, c) ==
    Cardinality({d \in 1 .. c - 1 : ~EmptyChip(d) /\ IsSome(Slot(round, d))})

\* C15: an empty chip (preprocessed and main trace absent or of height 0)
\* ends every stage with preprocessed, main, permutation and quotient_chunks
\* None, so without an opening index; it adds no matrix to the batch of any
\* commit, the other chips carry the opening indices they would carry without
\* it, and no stage panics because of it: a machine whose other chips all
\* have main rows runs every stage
C15_EmptyChipContributesNothing ==
    /\ (\A c \in 1 .. NumChips :
            EmptyChip(c) \/ ~AbsentOrEmpty(machine.chips[c].main))
        => machine.stage # "panic"
    /\ \A c \in 1 .. NumChips :
        EmptyChip(c) =>
            /\ \A round \in AllRounds : Slot(round, c) = None
            /\ machine.traces[c].cumulative_sum = None
    /\ \A round \in AllRounds :
        /\ \A c \in 1 .. NumChips :
                IsSome(Slot(round, c)) =>
                    Unwrap(Slot(round, c)).opening_index = IndexWithoutEmpty(round, c)
        /\ Reached(CommittedStage(round)) =>
                \/ CommitCalls(round) = <<BatchWithoutEmpty(round, 1)>>
                \/ CommitCalls(round) = <<>> /\ BatchWithoutEmpty(round, 1) = <<>>

\* ---- the quotient chunks

\* the points of a coset, in the order of its evaluations
PointAt(d, j) == FMul(d.shift, FPow(two_adic_generator(d.log_n), j))
PointsOf(d) == {PointAt(d, j) : j \in 0 .. Size(d) - 1}

\* the quotient domain the chunk sub-domains of a chip cover
ChunkPoints(ts) == UNION {PointsOf(ts[i].domain) : i \in 1 .. Len(ts)}

\* the evaluation of the quotient of chip c at point x of its quotient domain
QuotientValueAt(c, quotient_domain, x) ==
    LET y == CHOOSE y \in 0 .. Size(quotient_domain) - 1 : PointAt(quotient_domain, y) = x
    IN  QuotientValues(c, quotient_domain)[y + 1]

ChunksSplitQuotient(c, trace_domain, quotient_degree, ts) ==
    LET n == Size(trace_domain)
        quotient_domain == create_disjoint_domain(trace_domain, n * quotient_degree)
    IN  /\ Len(ts) = quotient_degree
        /\ Size(quotient_domain) = n * quotient_degree
        /\ PointsOf(quotient_domain) \cap PointsOf(trace_domain) = {}
        /\ Cardinality(PointsOf(quotient_domain)) = n * quotient_degree
        /\ ChunkPoints(ts) = PointsOf(quotient_domain)
        /\ \A i \in 1 .. Len(ts) :
            /\ Size(ts[i].domain) = n
            /\ Height(ts[i].value) = n
            /\ ts[i].value.width = D
            /\ \A j \in 0 .. n - 1 :
                    RowSlice(ts[i].value, j)
                        = QuotientValueAt(c, quotient_domain, PointAt(ts[i].domain, j))

MaxWidth == 2

FlatRows == UNION {[1 .. w -> EF] : w \in 1 .. MaxWidth}

\* the base-field values read back as extension-field openings
Embedded(v) == [i \in 1 .. Len(v) |-> from_f(v[i])]

InitFlatten ==
    \/ InitMachine
    \/ /\ \E row \in FlatRows : flat = [stage |-> "row", row |-> row]
       /\ machine = IdleMachine
       /\ chips = <<>> /\ random_elements = <<>> /\ perms = <<>>
       /\ rowres = {} /\ cumsum = "idle"
       /\ folder = IdleFolder /\ verif = IdleVerif /\ airck = IdleAirCheck
       /\ sumck = IdleSumCheck

FlattenRow ==
    /\ flat.stage = "row"
    /\ flat' = [stage |-> "flat", row |-> flat.row,
                base |-> flatten_to_base(RowMajorMatrix(flat.row, Len(flat.row)))]
    /\ UNCHANGED <<chips, random_elements, perms, rowres, cumsum, folder, verif, airck,
                   machine, sumck>>

UnflattenRow ==
    /\ flat.stage = "flat"
    /\ flat' = [stage |-> "unflattened", row |-> flat.row, base |-> flat.base,
                back |-> unflatten(Embedded(flat.base.values))]
    /\ UNCHANGED <<chips, random_elements, perms, rowres, cumsum, folder, verif, airck,
                   machine, sumck>>

NextFlatten == NextMachine \/ FlattenRow \/ UnflattenRow

SpecFlatten == InitFlatten /\ [][NextFlatten]_vars

\* the base row holds the D coefficients of each element, in order
CoefficientsInOrder(row, base) ==
    /\ Len(base) = Len(row) * D
    /\ \A m \in 1 .. Len(row) : \A e \in 1 .. D : base[(m - 1) * D + e] = row[m][e]

\* the permutation matrices the commit of the permutation round was handed
CommittedPermutationIsFlat(c) ==
    LET perm == Unwrap(Slot("permutation", c)).trace.value
        k == Len(machine.chips[c].sends) + Len(machine.chips[c].receives)
        flat_perm == CommitCalls("permutation")[1]
                        [Unwrap(Slot("permutation", c)).opening_index + 1][2]
    IN  /\ perm.width = k + 1
        /\ flat_perm.width = (k + 1) * D
        /\ Height(flat_perm) = Height(perm)
        /\ \A n \in 0 .. Height(perm) - 1 :
            /\ CoefficientsInOrder(RowSlice(perm, n), RowSlice(flat_perm, n))
            /\ unflatten(Embedded(RowSlice(flat_perm, n))) = RowSlice(perm, n)

\* C17: flatten_to_base turns a row of w extension-field elements into w * D
\* base elements, the D monomial-basis coefficients of each element in order,
\* and unflatten rebuilds the original w elements from them; the permutation
\* trace of width k + 1 is committed as a matrix of (k + 1) * D base columns
C17_FlattenUnflattenInverse ==
    /\ flat.stage \in {"flat", "unflattened"} =>
            /\ flat.base.width = Len(flat.row) * D
            /\ CoefficientsInOrder(flat.row, flat.base.values)
    /\ flat.stage = "unflattened" => flat.back = flat.row
    /\ (machine.stage # "idle" /\ Reached("permutation_committed")) =>
            \A c \in Holders("permutation") : CommittedPermutationIsFlat(c)

\* a row of two different elements, the first outside the base field, has been
\* flattened and rebuilt
C17_Witness ==
    /\ flat.stage = "unflattened"
    /\ Len(flat.row) = 2
    /\ flat.row[1][2] # 0
    /\ flat.row[1] # flat.row[2]
    /\ Len(flat.base.values) = 4

\* the permutation trace of a chip with an interaction has been committed
C17_CommitWitness ==
    /\ machine.stage # "idle" /\ Reached("permutation_committed")
    /\ \E c \in Holders("permutation") :
            /\ Len(machine.chips[c].sends) = 1
            /\ Unwrap(Slot("permutation", c)).trace.value.values[1][2] # 0

(***************************************************************************)
(* The debug check of the cumulative sums                                  *)
(* (src/air-util/src/check_constraints.rs, src/air-util/src/debug/rap)     *)
(***************************************************************************)
\* .as_ref().map(|m| m.row_slice(n).to_vec()).unwrap_or_default()
RowOrDefault(trace, n) == IF IsSome(trace) THEN RowSlice(Unwrap(trace), n) ELSE <<>>

\* VirtualPairCol::apply indexes a row beyond its end
ApplyPanics(col, preprocessed_row, main_row) ==
    \E t \in {col.column_weights[x] : x \in 1 .. Len(col.column_weights)} :
        IF t[1] = "Main" THEN t[2] >= Len(main_row) ELSE t[2] >= Len(preprocessed_row)

\* ---- check_cumulative_sums of src/air-util/src/check_constraints.rs

\* val of interaction j (1-based) of air i on row n of permutation[i].unwrap()
SumVal(in, i, j, n) ==
    LET ia == all_interactions(in.airs[i])[j]
        perm_row == RowSlice(Unwrap(in.permutation[i]), n)
        mult == Apply(ia[1].count, RowOrDefault(in.preprocessed[i], n),
                      RowOrDefault(in.main[i], n))
    IN  IF ia[2] = "Send" THEN EScale(perm_row[j], mult)
        ELSE EScale(ENeg(perm_row[j]), mult)

\* a row_slice or an index of the loop body is out of range
SumValPanics(in, i, j, n) ==
    \/ IsSome(in.preprocessed[i]) /\ ~InRange(Unwrap(in.preprocessed[i]), n)
    \/ IsSome(in.main[i]) /\ ~InRange(Unwrap(in.main[i]), n)
    \/ j > Unwrap(in.permutation[i]).width
    \/ ApplyPanics(all_interactions(in.airs[i])[j][1].count,
                   RowOrDefault(in.preprocessed[i], n), RowOrDefault(in.main[i], n))

\* how the loop over the interactions of air i ends: permutation[i].unwrap()
\* is evaluated once per interaction
AirLoopStatus(in, i) ==
    IF all_interactions(in.airs[i]) = <<>> THEN "ok"
    ELSE IF ~IsSome(in.permutation[i]) THEN "unwrap_panic"
    ELSE IF \E j \in 1 .. Len(all_interactions(in.airs[i])) :
                \E n \in 0 .. Height(Unwrap(in.permutation[i])) - 1 :
                    SumValPanics(in, i, j, n)
         THEN "index_panic"
         ELSE "ok"

RECURSIVE LoopStatusFrom(_, _)
LoopStatusFrom(in, i) ==
    IF i > Len(in.airs) THEN "ok"
    ELSE IF AirLoopStatus(in, i) # "ok" THEN AirLoopStatus(in, i)
    ELSE LoopStatusFrom(in, i + 1)

RECURSIVE SumOverRows(_, _, _, _)
SumOverRows(in, i, j, n) ==
    IF n >= Height(Unwrap(in.permutation[i])) THEN Zero
    ELSE EAdd(SumVal(in, i, j, n), SumOverRows(in, i, j, n + 1))

RECURSIVE SumOverInteractions(_, _, _, _)
SumOverInteractions(in, bus, i, j) ==
    IF j > Len(all_interactions(in.airs[i])) THEN Zero
    ELSE EAdd(IF all_interactions(in.airs[i])[j][1].argument_index = bus
              THEN SumOverRows(in, i, j, 0) ELSE Zero,
              SumOverInteractions(in, bus, i, j + 1))

\* sums[bus] after the loops
RECURSIVE SumOverAirs(_, _, _)
SumOverAirs(in, bus, i) ==
    IF i > Len(in.airs) THEN Zero
    ELSE EAdd(SumOverInteractions(in, bus, i, 1), SumOverAirs(in, bus, i + 1))

\* the keys of sums: the buses some row has added a value to
SumKeys(in) ==
    UNION {{all_interactions(in.airs[i])[j][1].argument_index :
                j \in 1 .. Len(all_interactions(in.airs[i]))} :
           i \in {x \in 1 .. Len(in.airs) :
                    /\ all_interactions(in.airs[x]) # <<>>
                    /\ Height(Unwrap(in.permutation[x])) > 0}}

\* a final sum over the first rows
RECURSIVE SumFirstFrom(_, _)
SumFirstFrom(in, i) ==
    IF i > Len(in.airs) THEN Zero
    ELSE EAdd(IF IsSome(in.permutation[i])
              THEN Last(RowSlice(Unwrap(in.permutation[i]), 0))
              ELSE Zero,
              SumFirstFrom(in, i + 1))

\* the final sum over permutation.iter().flatten(), the same in both versions
RECURSIVE SumLastFrom(_, _)
SumLastFrom(in, i) ==
    IF i > Len(in.airs) THEN Zero
    ELSE EAdd(IF IsSome(in.permutation[i])
              THEN Last(RowSlice(Unwrap(in.permutation[i]),
                                 Height(Unwrap(in.permutation[i])) - 1))
              ELSE Zero,
              SumLastFrom(in, i + 1))

\* perm.row_slice(perm.height() - 1) of a trace without rows
SumLastPanics(in) ==
    \E i \in 1 .. Len(in.airs) :
        IsSome(in.permutation[i]) /\ Height(Unwrap(in.permutation[i])) = 0

SetMin(S) == CHOOSE x \in S : \A y \in S : x <= y

\* check_cumulative_sums of src/air-util/src/check_constraints.rs: the loops,
\* the assertion on each bus in key order, the assertion on the total
air_check_cumulative_sums(in) ==
    LET loop == LoopStatusFrom(in, 1)
    IN  IF loop # "ok" THEN [status |-> loop, bus |-> None]
        ELSE LET nonzero == {bus \in SumKeys(in) : SumOverAirs(in, bus, 1) # Zero}
             IN  IF nonzero # {}
                 THEN [status |-> "bus_panic", bus |-> Some(SetMin(nonzero))]
                 ELSE IF SumLastPanics(in) THEN [status |-> "index_panic", bus |-> None]
                 ELSE IF SumLastFrom(in, 1) # Zero
                      THEN [status |-> "total_panic", bus |-> None]
                      ELSE [status |-> "ok", bus |-> None]

\* ---- check_cumulative_sums of src/air-util/src/debug/rap/check.rs

\* a val whose match adds the receive as it adds the send
RapValUnsigned(in, i, j, n, perm_row) ==
    EScale(perm_row[j],
           Apply(all_interactions(in.airs[i])[j][1].count,
                 RowOrDefault(in.preprocessed[i], n), RowOrDefault(in.main[i], n)))

\* val of interaction j (1-based) of air i for row n of the trace, perm_row
RapVal(in, i, j, n, perm_row) ==
    LET interaction == all_interactions(in.airs[i])[j][1]
        interaction_type == all_interactions(in.airs[i])[j][2]
        mult == Apply(interaction.count, RowOrDefault(in.preprocessed[i], n),
                      RowOrDefault(in.main[i], n))
    IN  CASE interaction_type = "Send" -> EScale(perm_row[j], mult)
          [] interaction_type = "Receive" -> EScale(ENeg(perm_row[j]), mult)

\* the loop body indexes a row or a column that is not there
RapValPanics(in, i, j, n, perm_row) ==
    \/ IsSome(in.preprocessed[i]) /\ ~InRange(Unwrap(in.preprocessed[i]), n)
    \/ IsSome(in.main[i]) /\ ~InRange(Unwrap(in.main[i]), n)
    \/ j > Len(perm_row)
    \/ ApplyPanics(all_interactions(in.airs[i])[j][1].count,
                   RowOrDefault(in.preprocessed[i], n), RowOrDefault(in.main[i], n))

\* the triples (i, j, n) the loop body runs for: air i, interaction j of it,
\* row n of the trace that if let Some(permutation) binds
RapVisits(in) ==
    UNION {{<<i, j, n>> : j \in 1 .. Len(all_interactions(in.airs[i])),
                          n \in 0 .. Height(Unwrap(in.permutation[i])) - 1} :
           i \in {x \in 1 .. Len(in.airs) : IsSome(in.permutation[x])}}

\* perm_row of a visit
RapRowOf(in, t) == RowSlice(Unwrap(in.permutation[t[1]]), t[3])

\* sums after the loops: a map from the buses visited to their sums, each the
\* sum of the vals in the order of the visits
RECURSIVE RapSumFrom(_, _, _, _, _)
RapSumFrom(in, bus, i, j, n) ==
    IF i > Len(in.airs) THEN Zero
    ELSE IF j > Len(all_interactions(in.airs[i])) THEN RapSumFrom(in, bus, i + 1, 1, 0)
    ELSE IF ~IsSome(in.permutation[i]) \/ n >= Height(Unwrap(in.permutation[i]))
         THEN RapSumFrom(in, bus, i, j + 1, 0)
    ELSE EAdd(IF all_interactions(in.airs[i])[j][1].argument_index = bus
              THEN RapVal(in, i, j, n, RapRowOf(in, <<i, j, n>>)) ELSE Zero,
              RapSumFrom(in, bus, i, j, n + 1))

RapSums(in) ==
    [bus \in {all_interactions(in.airs[t[1]])[t[2]][1].argument_index : t \in RapVisits(in)}
        |-> RapSumFrom(in, bus, 1, 1, 0)]

\* check_cumulative_sums of src/air-util/src/debug/rap/check.rs
rap_check_cumulative_sums(in) ==
    IF \E t \in RapVisits(in) : RapValPanics(in, t[1], t[2], t[3], RapRowOf(in, t))
    THEN [status |-> "index_panic", bus |-> None]
    ELSE LET sums == RapSums(in)
             failing == {i \in DOMAIN sums : sums[i] # Zero}
             present == {x \in 1 .. Len(in.airs) : IsSome(in.permutation[x])}
         IN  IF failing # {}
             THEN [status |-> "bus_panic", bus |-> Some(SetMin(failing))]
             ELSE IF \E x \in present : Height(Unwrap(in.permutation[x])) = 0
                  THEN [status |-> "index_panic", bus |-> None]
             ELSE IF SumLastFrom(in, 1) # Zero
                  THEN [status |-> "total_panic", bus |-> None]
                  ELSE [status |-> "ok", bus |-> None]

\* ---- the inputs of the debug check

MaxAirs == 2

SendOn(bus, count) ==
    [sends |-> <<Interaction(<<SingleMain(0)>>, count, bus)>>, receives |-> <<>>]
ReceiveOn(bus, count) ==
    [sends |-> <<>>, receives |-> <<Interaction(<<SingleMain(0)>>, count, bus)>>]
SendAndReceive ==
    [sends |-> <<Interaction(<<SingleMain(0)>>, SingleMain(1), 0)>>,
     receives |-> <<Interaction(<<SingleMain(0)>>, SingleMain(1), 1)>>]

SumAir(air, preprocessed, main, permutation) ==
    [air |-> air, preprocessed |-> preprocessed, main |-> main,
     permutation |-> permutation]

OneRow == Some(RowMajorMatrix(<<0, 1>>, 2))
TwoRows == Some(RowMajorMatrix(<<0, 1, 0, 1>>, 2))

\* one chip of the machine under check: its interactions and its traces. The
\* permutation traces are right ones and wrong ones, and an empty chip has none
SumAirs ==
    {SumAir(NoInteractions, None, None, None),
     SumAir(NoInteractions, None, OneRow, None),
     SumAir(NoInteractions, None, OneRow, Some(RowMajorMatrix(<<Zero>>, 1))),
     SumAir(NoInteractions, None, OneRow, Some(RowMajorMatrix(<<One>>, 1))),
     SumAir(NoInteractions, None, OneRow, Some(RowMajorMatrix(<< <<4, 0>> >>, 1))),
     SumAir(SendOn(0, SingleMain(1)), None, None, None),
     SumAir(SendOn(0, SingleMain(1)), None, OneRow, None),
     SumAir(SendOn(0, SingleMain(1)), None, OneRow,
            Some(RowMajorMatrix(<< <<1, 2>>, <<1, 2>> >>, 2))),
     SumAir(ReceiveOn(0, SingleMain(1)), None, OneRow,
            Some(RowMajorMatrix(<< <<1, 2>>, <<4, 3>> >>, 2))),
     SumAir(SendOn(0, SingleMain(1)), None, OneRow,
            Some(RowMajorMatrix(<<One, Zero>>, 2))),
     SumAir(SendOn(0, SingleMain(1)), None, Some(RowMajorMatrix(<<0, 0>>, 2)),
            Some(RowMajorMatrix(<<One, Zero>>, 2))),
     SumAir(SendOn(1, SingleMain(1)), None, OneRow,
            Some(RowMajorMatrix(<<One, One>>, 2))),
     SumAir(SendOn(0, SinglePreprocessed(0)), Some(RowMajorMatrix(<<1>>, 1)), OneRow,
            Some(RowMajorMatrix(<<One, One>>, 2))),
     SumAir(SendAndReceive, None, OneRow,
            Some(RowMajorMatrix(<<One, One, Zero>>, 3))),
     SumAir(SendOn(0, SingleMain(1)), None, TwoRows,
            Some(RowMajorMatrix(<<One, One, One, <<2, 0>> >>, 2))),
     SumAir(ReceiveOn(0, SingleMain(1)), None, TwoRows,
            Some(RowMajorMatrix(<<One, <<4, 0>>, One, <<3, 0>> >>, 2)))}

SumInputOf(as) ==
    [airs |-> [i \in 1 .. Len(as) |-> as[i].air],
     preprocessed |-> [i \in 1 .. Len(as) |-> as[i].preprocessed],
     main |-> [i \in 1 .. Len(as) |-> as[i].main],
     permutation |-> [i \in 1 .. Len(as) |-> as[i].permutation]]

SumInputs == UNION {{SumInputOf(as) : as \in [1 .. n -> SumAirs]} : n \in 1 .. MaxAirs}

InitSumCheck ==
    /\ \E in \in SumInputs : sumck = [input |-> Some(in), status |-> "called"]
    /\ chips = <<>> /\ random_elements = <<>> /\ perms = <<>>
    /\ rowres = {} /\ cumsum = "idle"
    /\ folder = IdleFolder /\ verif = IdleVerif /\ airck = IdleAirCheck
    /\ machine = IdleMachine /\ flat = IdleFlat

\* one call of check_cumulative_sums of src/air-util/src/check_constraints.rs
AirCheckCumulativeSums ==
    /\ sumck.status = "called"
    /\ sumck' = [input |-> sumck.input, status |-> "returned", version |-> "air",
                 result |-> air_check_cumulative_sums(Unwrap(sumck.input))]
    /\ UNCHANGED <<chips, random_elements, perms, rowres, cumsum, folder, verif, airck,
                   machine, flat>>

\* one call of check_cumulative_sums of src/air-util/src/debug/rap/check.rs
RapCheckCumulativeSums ==
    /\ sumck.status = "called"
    /\ sumck' = [input |-> sumck.input, status |-> "returned", version |-> "rap",
                 result |-> rap_check_cumulative_sums(Unwrap(sumck.input))]
    /\ UNCHANGED <<chips, random_elements, perms, rowres, cumsum, folder, verif, airck,
                   machine, flat>>

NextSumCheck == AirCheckCumulativeSums \/ RapCheckCumulativeSums

SpecSumCheck == InitSumCheck /\ [][NextSumCheck]_vars

\* ---- what the check of the cumulative sums decides

SumInput == Unwrap(sumck.input)

RECURSIVE ESumSet(_)
ESumSet(S) ==
    IF S = {} THEN Zero
    ELSE LET x == CHOOSE x \in S : TRUE IN EAdd(x.val, ESumSet(S \ {x}))

\* the rows of the permutation trace of air i; none when the trace is absent
PermRows(in, i) ==
    IF IsSome(in.permutation[i]) THEN 0 .. Height(Unwrap(in.permutation[i])) - 1 ELSE {}

PermCell(in, i, n, j) ==
    Unwrap(in.permutation[i]).values[n * Unwrap(in.permutation[i]).width + j]

\* sign * mult(n) * perm[n][j] for interaction j of air i on row n
Contribution(in, i, j, n) ==
    LET ia == all_interactions(in.airs[i])[j]
        mult == Apply(ia[1].count, RowOrDefault(in.preprocessed[i], n),
                      RowOrDefault(in.main[i], n))
        sign == IF ia[2] = "Send" THEN 1 ELSE P - 1
    IN  EScale(PermCell(in, i, n, j), FMul(sign, mult))

Contributions(in, bus) ==
    UNION {UNION {{[i |-> i, j |-> j, n |-> n, val |-> Contribution(in, i, j, n)] :
                        n \in PermRows(in, i)} :
                  j \in {x \in 1 .. Len(all_interactions(in.airs[i])) :
                            all_interactions(in.airs[i])[x][1].argument_index = bus}} :
           i \in 1 .. Len(in.airs)}

UsedBuses(in) ==
    UNION {{all_interactions(in.airs[i])[j][1].argument_index :
                j \in 1 .. Len(all_interactions(in.airs[i]))} : i \in 1 .. Len(in.airs)}

\* (a): every bus sums to zero
BusesBalanced(in) == \A bus \in UsedBuses(in) : ESumSet(Contributions(in, bus)) = Zero

\* (b): the last-row, last-column entries of the permutation traces sum to zero
TotalBalanced(in) ==
    ESumSet({[i |-> i,
              val |-> PermCell(in, i, Height(Unwrap(in.permutation[i])) - 1,
                               Unwrap(in.permutation[i]).width)] :
                i \in {x \in 1 .. Len(in.airs) : IsSome(in.permutation[x])}}) = Zero

SucceedsExactlyWhenBalanced ==
    /\ sumck.result.status = "ok" <=> (BusesBalanced(SumInput) /\ TotalBalanced(SumInput))
    /\ ~BusesBalanced(SumInput) =>
            /\ sumck.result.status = "bus_panic"
            /\ ESumSet(Contributions(SumInput, Unwrap(sumck.result.bus))) # Zero

\* C18: check_cumulative_sums succeeds exactly when (a) every bus used by an
\* interaction has the sum of sign * mult(n) * perm[n][j] over all chips,
\* interactions on the bus and rows equal to 0 and (b) the last-row,
\* last-column entries of the permutation traces sum to 0; otherwise it
\* panics, and names an offending bus when (a) fails
C18_SucceedsExactlyWhenBalanced ==
    sumck.status = "returned" => SucceedsExactlyWhenBalanced

\* the same for the check of src/air-util/src/debug/rap/check.rs alone
C18_RapSucceedsExactlyWhenBalanced ==
    (sumck.status = "returned" /\ sumck.version = "rap") => SucceedsExactlyWhenBalanced

\* the same when every chip that declares an interaction has a permutation trace
C18_SucceedsExactlyWhenBalancedAllPresent ==
    (/\ sumck.status = "returned"
     /\ \A i \in 1 .. Len(SumInput.airs) :
            all_interactions(SumInput.airs[i]) # <<>> => IsSome(SumInput.permutation[i]))
        => SucceedsExactlyWhenBalanced

\* the chips of an input that have a permutation trace
RECURSIVE PresentAirs(_, _)
PresentAirs(in, i) ==
    IF i > Len(in.airs) THEN <<>>
    ELSE (IF IsSome(in.permutation[i])
          THEN <<SumAir(in.airs[i], in.preprocessed[i], in.main[i], in.permutation[i])>>
          ELSE <<>>)
         \o PresentAirs(in, i + 1)

WithoutAbsent(in) == SumInputOf(PresentAirs(in, 1))

\* C19: check_cumulative_sums of air-util/src/check_constraints.rs treats a
\* chip whose permutation trace is absent as contributing 0: whatever
\* interactions the chip declares, the call ends as it ends without the chip,
\* and does not panic because of it
C19_AbsentPermutationContributesZero ==
    (sumck.status = "returned" /\ sumck.version = "air") =>
        /\ sumck.result.status # "unwrap_panic"
        /\ sumck.result = air_check_cumulative_sums(WithoutAbsent(SumInput))

\* the check of src/air-util/src/debug/rap/check.rs does treat it so
C19_RapAbsentPermutationContributesZero ==
    (sumck.status = "returned" /\ sumck.version = "rap") =>
        /\ sumck.result.status # "unwrap_panic"
        /\ sumck.result = rap_check_cumulative_sums(WithoutAbsent(SumInput))

(***************************************************************************)
(* The order of the interactions and the columns of the permutation trace  *)
(***************************************************************************)
\* the interaction the declarations put at position m: sends, then receives
InteractionAt(chip, m) ==
    IF m <= Len(chip.sends) THEN <<chip.sends[m], "Send">>
    ELSE <<chip.receives[m - Len(chip.sends)], "Receive">>

NumInteractions(chip) == Len(chip.sends) + Len(chip.receives)

\* the rlc of a declared interaction on row n
InteractionRlc(chip, interaction, n) ==
    reduce_row(RowSlice(chip.main, n), PreprocessedRow(chip, n), interaction.fields,
               generate_rlc_elements(chip, random_elements)[interaction.argument_index + 1],
               random_elements[2])

\* sign * mult * perm[n][m] of the interaction declared at position m
DeclaredContribution(chip, perm, n, m) ==
    EScale(PermEntry(perm, n, m),
           FMul(SignOf(InteractionAt(chip, m)[2]),
                Apply(InteractionAt(chip, m)[1].count, PreprocessedRow(chip, n),
                      RowSlice(chip.main, n))))

DeclaredRunningSum(chip, perm, n) ==
    ESum(Concat([r \in 1 .. n + 1 |->
            [m \in 1 .. NumInteractions(chip) |-> DeclaredContribution(chip, perm, r - 1, m)]]))

ListIsSendsThenReceives(chip) ==
    /\ Len(all_interactions(chip)) = NumInteractions(chip)
    /\ \A m \in 1 .. NumInteractions(chip) : all_interactions(chip)[m] = InteractionAt(chip, m)

ColumnsFollowList(chip, perm) ==
    /\ perm.width = NumInteractions(chip) + 1
    /\ \A n \in RowsOf(chip) :
        /\ \A m \in 1 .. NumInteractions(chip) :
            LET rlc == InteractionRlc(chip, InteractionAt(chip, m)[1], n)
            IN  /\ rlc # Zero => EMul(PermEntry(perm, n, m), rlc) = One
                /\ rlc = Zero => PermEntry(perm, n, m) = Zero
        /\ PermEntry(perm, n, NumInteractions(chip) + 1) = DeclaredRunningSum(chip, perm, n)

ConstraintsFollowList(chip, perm, r) ==
    LET k == NumInteractions(chip)
    IN  /\ Len(r.asserted) = k + 3
        /\ \A m \in 1 .. k :
                r.asserted[m] =
                    ESub(EMul(InteractionRlc(chip, InteractionAt(chip, m)[1], r.row),
                              PermEntry(perm, r.row, m)), One)
        /\ r.asserted[k + 3] =
                EScale(ESub(PermEntry(perm, r.row, k + 1), CumulativeSumOf(perm)),
                       r.is_last_row)

\* C20: all_interactions lists the sends in their order, labelled Send, then
\* the receives in their order, labelled Receive; the interaction at position
\* m has its reciprocal in column m of the generated permutation trace and in
\* reciprocal constraint m of eval_permutation_constraints, and the running
\* sum is the column after the k interactions
C20_InteractionOrderDefinesColumns ==
    \A c \in 1 .. Len(chips) :
        /\ ListIsSendsThenReceives(chips[c])
        /\ IsSome(perms[c]) =>
            /\ ColumnsFollowList(chips[c], Unwrap(perms[c]))
            /\ \A r \in rowres :
                    r.chip = c => ConstraintsFollowList(chips[c], Unwrap(perms[c]), r)

\* a chip with a send and a receive whose reciprocals differ on a checked row
C20_Witness ==
    \E r \in rowres :
        LET chip == chips[r.chip]
            perm == Unwrap(perms[r.chip])
        IN  /\ Len(chip.sends) = 1 /\ Len(chip.receives) = 1
            /\ PermEntry(perm, r.row, 1) # PermEntry(perm, r.row, 2)
            /\ PermEntry(perm, r.row, 1) # Zero /\ PermEntry(perm, r.row, 2) # Zero
            /\ PermEntry(perm, r.row, 3) # Zero

\* ---- the per-bus sums against the total

AllPermutationsPresent(in) == \A i \in 1 .. Len(in.airs) : IsSome(in.permutation[i])

\* the last column of the permutation trace of air i is the running sum of
\* the contributions of its rows
RunningSumInvariant(in, i) ==
    \A n \in PermRows(in, i) :
        PermCell(in, i, n, Unwrap(in.permutation[i]).width)
            = ESumSet({[j |-> j, r |-> r, val |-> Contribution(in, i, j, r)] :
                        j \in 1 .. Len(all_interactions(in.airs[i])), r \in 0 .. n})

\* the sum over the buses of the sums the check has computed
SumOfBusSums(in) ==
    ESumSet({[bus |-> bus, val |-> SumOverAirs(in, bus, 1)] : bus \in SumKeys(in)})

\* the sum over the chips of the last-row, last-column entries
LastEntriesTotal(in) ==
    ESumSet({[i |-> i,
              val |-> PermCell(in, i, Height(Unwrap(in.permutation[i])) - 1,
                               Unwrap(in.permutation[i]).width)] :
                i \in {x \in 1 .. Len(in.airs) : IsSome(in.permutation[x])}})

\* C26: when every chip holds a permutation trace whose last column is the
\* running sum, the per-bus sums of check_cumulative_sums add up to the sum
\* over the chips of the last-row running-sum entries, so the final
\* assertion on the total cannot fail once every per-bus sum is 0
C26_BusSumsAddUpToTotal ==
    (/\ sumck.status = "returned"
     /\ AllPermutationsPresent(SumInput)
     /\ \A i \in 1 .. Len(SumInput.airs) : RunningSumInvariant(SumInput, i))
        => /\ SumOfBusSums(SumInput) = LastEntriesTotal(SumInput)
           /\ SumLastFrom(SumInput, 1) = LastEntriesTotal(SumInput)
           /\ sumck.result.status # "total_panic"
           /\ BusesBalanced(SumInput) => sumck.result.status = "ok"

\* two chips with two-row traces that satisfy the invariant, on one bus, the
\* bus sums nonzero
C26_Witness ==
    /\ sumck.status = "returned"
    /\ Len(SumInput.airs) = 2
    /\ AllPermutationsPresent(SumInput)
    /\ \A i \in 1 .. 2 :
        /\ RunningSumInvariant(SumInput, i)
        /\ Height(Unwrap(SumInput.permutation[i])) = 2
        /\ all_interactions(SumInput.airs[i]) # <<>>
    /\ SumOfBusSums(SumInput) # Zero
    /\ sumck.result.status = "bus_panic"

\* C30: on every input in which every chip has a permutation trace, the
\* outcome one version of check_cumulative_sums has returned is the outcome
\* the other version computes, offending bus included, and it is acceptance
\* exactly when every bus sum and the total are 0; the debug/rap version skips
\* a chip without a permutation trace and ends as it ends on the remaining
\* chips, without panicking on the missing trace
C30_VersionsAgreeRapSkipsAbsent ==
    sumck.status = "returned" =>
        /\ AllPermutationsPresent(SumInput) =>
                /\ sumck.version = "air" =>
                        sumck.result = rap_check_cumulative_sums(SumInput)
                /\ sumck.version = "rap" =>
                        sumck.result = air_check_cumulative_sums(SumInput)
                /\ sumck.result.status = "ok"
                        <=> (BusesBalanced(SumInput) /\ TotalBalanced(SumInput))
        /\ sumck.version = "rap" =>
                /\ sumck.result.status # "unwrap_panic"
                /\ sumck.result = rap_check_cumulative_sums(WithoutAbsent(SumInput))

\* the debug/rap version has skipped a chip that declares an interaction and
\* has no permutation trace, and has rejected the remaining chip's bus
C30_Witness ==
    /\ sumck.status = "returned" /\ sumck.version = "rap"
    /\ Len(SumInput.airs) = 2
    /\ ~IsSome(SumInput.permutation[1]) /\ all_interactions(SumInput.airs[1]) # <<>>
    /\ IsSome(SumInput.permutation[2])
    /\ sumck.result.status = "bus_panic"

\* the debug/rap version has accepted two chips with two-row permutation
\* traces, a send and a receive on one bus, whose sums are each nonzero
C30_AcceptWitness ==
    /\ sumck.status = "returned" /\ sumck.version = "rap"
    /\ Len(SumInput.airs) = 2
    /\ AllPermutationsPresent(SumInput)
    /\ \A i \in 1 .. 2 :
        /\ Height(Unwrap(SumInput.permutation[i])) = 2
        /\ Len(all_interactions(SumInput.airs[i])) = 1
    /\ all_interactions(SumInput.airs[1])[1][2] = "Send"
    /\ all_interactions(SumInput.airs[2])[1][2] = "Receive"
    /\ Last(RowSlice(Unwrap(SumInput.permutation[1]), 1)) # Zero
    /\ sumck.result.status = "ok"

\* the check of src/air-util/src/check_constraints.rs has rejected a bus of
\* chips that all have a permutation trace
C30_RejectWitness ==
    /\ sumck.status = "returned" /\ sumck.version = "air"
    /\ Len(SumInput.airs) = 2
    /\ AllPermutationsPresent(SumInput)
    /\ \E i \in 1 .. 2 :
        /\ all_interactions(SumInput.airs[i]) # <<>>
        /\ all_interactions(SumInput.airs[i])[1][2] = "Receive"
    /\ sumck.result.status = "bus_panic"

\* ---- the quotient round: one opening index per chip, one matrix per chunk

HasDomain(c) == IsSome(ChipTraceDomain(machine.traces[c]))

\* the number of chunk matrices the chips before chip c hand to the commit
RECURSIVE ChunksBefore(_)
ChunksBefore(c) ==
    IF c <= 1 THEN 0
    ELSE ChunksBefore(c - 1)
         + (IF HasDomain(c - 1) THEN machine.chips[c - 1].quotient_degree ELSE 0)

\* C29: generate_quotient numbers the chips that have a trace domain 0, 1,
\* 2, ... in chip order, one index per chip; commit_quotient hands pcs.commit
\* the chunks of all chips in chip order and then chunk order, so the batch
\* holds as many matrices as the quotient degrees add up to and the chunks of
\* a chip start after the chunks of the chips before it
C29_QuotientIndicesAndBatch ==
    /\ Reached("quotient") =>
        \A c \in 1 .. NumChips :
            /\ IsSome(Slot("quotient", c)) <=> HasDomain(c)
            /\ HasDomain(c) =>
                /\ Unwrap(Slot("quotient", c)).opening_index
                        = Cardinality({d \in 1 .. c - 1 : HasDomain(d)})
                /\ Len(Unwrap(Slot("quotient", c)).traces) = machine.chips[c].quotient_degree
    /\ (Reached("quotient_committed") /\ \E c \in 1 .. NumChips : HasDomain(c)) =>
        /\ Len(CommitCalls("quotient")) = 1
        /\ Len(CommitCalls("quotient")[1]) = ChunksBefore(NumChips + 1)
        /\ \A c \in 1 .. NumChips :
            HasDomain(c) =>
                \A i \in 1 .. machine.chips[c].quotient_degree :
                    CommitCalls("quotient")[1][ChunksBefore(c) + i]
                        = <<Unwrap(Slot("quotient", c)).traces[i].domain,
                            Unwrap(Slot("quotient", c)).traces[i].value>>

\* a chip with two chunks stands before a chip with a trace domain, whose
\* opening index is 1 and whose chunk is the third matrix of the batch
C29_Witness ==
    /\ Reached("quotient_committed")
    /\ NumChips = 2
    /\ HasDomain(1) /\ machine.chips[1].quotient_degree = 2
    /\ HasDomain(2)
    /\ Unwrap(Slot("quotient", 2)).opening_index = 1
    /\ ChunksBefore(2) = 2
    /\ Len(CommitCalls("quotient")[1]) >= 3

\* ---- the preprocessed width handed to get_quotient_degree

\* C24: generate_quotient passes get_quotient_degree the width of the chip's
\* preprocessed trace when the chip has one, and 0 only for a chip without
C24_QuotientDegreeUsesPreprocessedWidth ==
    Reached("quotient") =>
        \A c \in 1 .. NumChips :
            machine.degree_arguments[c]
                = IF IsSome(Slot("preprocessed", c))
                  THEN Unwrap(Slot("preprocessed", c)).trace.value.width
                  ELSE 0

(***************************************************************************)
(* The loader stages in any order                                          *)
(***************************************************************************)
MaxStages == 3

\* self.iter_mut().zip_eq(traces) of lists of different lengths
ZipEqPanics(mt, traces) == Len(mt) # Len(traces)

StageConfigs ==
    {<<<<-1, -1>>, NoInteractions, 1>>,
     <<<<1, -1>>, NoInteractions, 1>>,
     <<<<1, 1>>, OneSend, 2>>,
     <<<<2, 2>>, OneSend, 1>>}

StageMachines ==
    UNION {{m \in [1 .. n -> {MachineChip(c, cfg[1], cfg[2], cfg[3]) :
                                c \in 1 .. n, cfg \in StageConfigs}] :
                \A c \in 1 .. n :
                    m[c] \in {MachineChip(c, cfg[1], cfg[2], cfg[3]) : cfg \in StageConfigs}} :
           n \in 1 .. 2}

\* the lists a caller may hand to a loader: the chips' traces, no traces, a
\* list that is one short, a list that is one long
TraceLists(own) ==
    {own, [c \in 1 .. Len(own) |-> None], SubSeq(own, 1, Len(own) - 1), own \o <<None>>}

InitStages ==
    /\ \E m \in StageMachines :
        machine = [stage |-> "stages", chips |-> m,
                   traces |-> [c \in 1 .. Len(m) |-> NewChipTrace],
                   own |-> [c \in 1 .. Len(m) |-> NewChipTrace],
                   arg_len |-> Len(m), steps |-> 0]
    /\ chips = <<>> /\ random_elements = <<>> /\ perms = <<>>
    /\ rowres = {} /\ cumsum = "idle"
    /\ folder = IdleFolder /\ verif = IdleVerif /\ airck = IdleAirCheck
    /\ flat = IdleFlat /\ sumck = IdleSumCheck

StageReady == machine.stage = "stages" /\ machine.steps < MaxStages

\* a stage that panicked returns no machine trace
StagePanicked(arg_len) ==
    [machine EXCEPT !.stage = "panic", !.traces = <<>>, !.arg_len = arg_len,
                    !.steps = machine.steps + 1]

StageGeneratePreprocessed ==
    /\ StageReady
    /\ LET traces == [c \in 1 .. Len(machine.chips) |-> machine.chips[c].preprocessed]
       IN  machine' =
            [machine EXCEPT !.steps = machine.steps + 1, !.arg_len = Len(traces),
                !.traces = load_preprocessed(machine.traces, traces),
                !.own = [c \in 1 .. Len(machine.own) |->
                            [machine.own[c] EXCEPT !.preprocessed = load_traces(traces)[c]]]]
    /\ UNCHANGED OtherVars

StageLoadPreprocessed ==
    /\ StageReady
    /\ \E traces \in TraceLists([c \in 1 .. Len(machine.chips) |->
                                    machine.chips[c].preprocessed]) :
        machine' =
            IF ZipEqPanics(machine.traces, traces) THEN StagePanicked(Len(traces))
            ELSE [machine EXCEPT !.steps = machine.steps + 1, !.arg_len = Len(traces),
                    !.traces = load_preprocessed(machine.traces, traces),
                    !.own = [c \in 1 .. Len(machine.own) |->
                                [machine.own[c] EXCEPT
                                    !.preprocessed = load_traces(traces)[c]]]]
    /\ UNCHANGED OtherVars

StageLoadMain ==
    /\ StageReady
    /\ \E traces \in TraceLists([c \in 1 .. Len(machine.chips) |-> machine.chips[c].main]) :
        machine' =
            IF ZipEqPanics(machine.traces, traces) THEN StagePanicked(Len(traces))
            ELSE [machine EXCEPT !.steps = machine.steps + 1, !.arg_len = Len(traces),
                    !.traces = load_main(machine.traces, traces),
                    !.own = [c \in 1 .. Len(machine.own) |->
                                [machine.own[c] EXCEPT !.main = load_traces(traces)[c]]]]
    /\ UNCHANGED OtherVars

StageGeneratePermutation ==
    /\ StageReady
    /\ LET traces == PermutationTraces(machine.traces, machine.chips, MachineChallenges)
           new == generate_permutation(machine.traces, machine.chips, MachineChallenges)
       IN  machine' =
            IF CumulativeSumPanics(traces) THEN StagePanicked(Len(traces))
            ELSE [machine EXCEPT !.steps = machine.steps + 1, !.arg_len = Len(traces),
                    !.traces = new,
                    !.own = [c \in 1 .. Len(machine.own) |->
                                [machine.own[c] EXCEPT
                                    !.permutation = new[c].permutation,
                                    !.cumulative_sum = new[c].cumulative_sum]]]
    /\ UNCHANGED OtherVars

\* the prover data are those the commits of the loaded traces return
StageGenerateQuotient ==
    /\ StageReady
    /\ LET new == generate_quotient(machine.traces, machine.chips)
       IN  machine' =
            IF QuotientDataPanics(machine.traces,
                    commit_traces(PreprocessedBatch(machine.traces)).result[2],
                    commit_traces(MainBatch(machine.traces)).result[2],
                    commit_traces(PermutationBatch(machine.traces)).result[2])
            THEN StagePanicked(Len(machine.traces))
            ELSE [machine EXCEPT !.steps = machine.steps + 1,
                    !.arg_len = Len(machine.traces),
                    !.traces = new,
                    !.own = [c \in 1 .. Len(machine.own) |->
                                [machine.own[c] EXCEPT
                                    !.quotient_chunks = new[c].quotient_chunks]]]
    /\ UNCHANGED OtherVars

NextStages ==
    \/ StageGeneratePreprocessed \/ StageLoadPreprocessed \/ StageLoadMain
    \/ StageGeneratePermutation \/ StageGenerateQuotient

SpecStages == InitStages /\ [][NextStages]_vars

\* C28: every loader stage changes only its own fields of every ChipTrace
\* and keeps the number and order of the chips, so each field holds what the
\* last run of its own stage gave it, or None when that stage has not run;
\* a stage handed a list of another length than the number of chips panics
\* and returns no machine trace
C28_StagesChangeOwnFieldsOnly ==
    /\ machine.stage = "stages" =>
        /\ machine.arg_len = NumChips
        /\ Len(machine.traces) = NumChips
        /\ \A c \in 1 .. NumChips :
            /\ machine.traces[c].preprocessed = machine.own[c].preprocessed
            /\ machine.traces[c].main = machine.own[c].main
            /\ machine.traces[c].permutation = machine.own[c].permutation
            /\ machine.traces[c].cumulative_sum = machine.own[c].cumulative_sum
            /\ machine.traces[c].quotient_chunks = machine.own[c].quotient_chunks
            /\ machine.traces[c].quotient_degree = None
    /\ machine.arg_len # NumChips => machine.stage = "panic" /\ machine.traces = <<>>

\* the preprocessed traces were loaded, then the main traces, then the
\* permutation traces were generated: all three slots of chip 2 are filled
C28_Witness ==
    /\ machine.stage = "stages" /\ machine.steps = 3
    /\ NumChips = 2
    /\ IsSome(machine.traces[2].preprocessed)
    /\ IsSome(machine.traces[2].main)
    /\ IsSome(machine.traces[2].permutation)
    /\ machine.traces[1].preprocessed # machine.traces[2].preprocessed

\* a loader was handed a list that is one short
C28_PanicWitness ==
    /\ machine.stage = "panic" /\ machine.arg_len = NumChips - 1 /\ NumChips = 2

(***************************************************************************)
(* The bus tags                                                            *)
(***************************************************************************)
\* the buses a chip's interactions name
BusesOf(chip) ==
    {chip.sends[i].argument_index : i \in 1 .. Len(chip.sends)}
        \cup {chip.receives[i].argument_index : i \in 1 .. Len(chip.receives)}

\* B: the largest bus a chip names, 0 when it names none
LargestBus(chip) ==
    CHOOSE b \in BusesOf(chip) \cup {0} : \A x \in BusesOf(chip) : x <= b

\* the tag of bus b under the challenge g: g * g^b
BusTag(g, b) == EMul(g, EPow(g, b))

\* C25: generate_rlc_elements returns [g^1 .. g^(B+1)], B the largest bus the
\* chip names (the single g^1 when it names none), in both of its versions;
\* every interaction's bus is an index of that list, and the permutation
\* trace tags the messages of bus b with g^(b+1), a value of b and g alone
C25_BusTagsArePowersFromOne ==
    \A c \in 1 .. Len(chips) :
        IsSome(perms[c]) =>
            LET chip == chips[c]
                g == random_elements[1]
                alphas == generate_rlc_elements(chip, random_elements)
            IN  /\ Len(alphas) = LargestBus(chip) + 1
                /\ \A i \in 1 .. Len(alphas) : alphas[i] = BusTag(g, i - 1)
                /\ alphas = rap_generate_rlc_elements(chip.sends, chip.receives, g)
                /\ \A m \in 1 .. K(chip) :
                    LET interaction == all_interactions(chip)[m][1]
                        b == interaction.argument_index
                    IN  /\ b + 1 \in 1 .. Len(alphas)
                        /\ \A n \in RowsOf(chip) :
                            LET rlc == reduce_row(RowSlice(chip.main, n),
                                                  PreprocessedRow(chip, n),
                                                  interaction.fields, BusTag(g, b),
                                                  random_elements[2])
                            IN  rlc # Zero =>
                                    EMul(PermEntry(Unwrap(perms[c]), n, m), rlc) = One

\* a chip of two rows with a send on bus 1 and a receive on bus 0 under a
\* challenge g whose powers g^0, g^1, g^2 differ
C25_Witness ==
    \E c \in 1 .. Len(chips) :
        /\ IsSome(perms[c])
        /\ Height(chips[c].main) = 2
        /\ BusesOf(chips[c]) = {0, 1}
        /\ chips[c].sends[1].argument_index = 1
        /\ Len(generate_rlc_elements(chips[c], random_elements)) = 2
        /\ BusTag(random_elements[1], 1) # BusTag(random_elements[1], 0)
        /\ BusTag(random_elements[1], 0) # One
        /\ BusTag(random_elements[1], 1) # One
        /\ PermEntry(Unwrap(perms[c]), 1, 1) # Zero

\* a chip without interactions gets the single tag g^1
C25_NoInteractionsWitness ==
    \E c \in 1 .. Len(chips) :
        /\ IsSome(perms[c])
        /\ Height(chips[c].main) = 2
        /\ K(chips[c]) = 0
        /\ generate_rlc_elements(chips[c], random_elements) = <<random_elements[1]>>
        /\ random_elements[1] # One

(***************************************************************************)
(* The Merkle-tree chip                                                    *)
(***************************************************************************)
\* the column map of the chip: is_real, then the groups of columns of the
\* left node, the right node and the output
MERKLE_TREE_COL_MAP ==
    [is_real |-> 0,
     left_node |-> << <<1>>, <<2>> >>,
     right_node |-> << <<3>>, <<4>> >>,
     output |-> << <<5>>, <<6>> >>]

NUM_MERKLE_TREE_COLS == 7

\* a send of right_node ++ left_node
MerkleSendsRightFirst(self) ==
    << Interaction([j \in 1 .. Len(Concat(MERKLE_TREE_COL_MAP.right_node
                                            \o MERKLE_TREE_COL_MAP.left_node)) |->
                        SingleMain(Concat(MERKLE_TREE_COL_MAP.right_node
                                            \o MERKLE_TREE_COL_MAP.left_node)[j])],
                   SingleMain(MERKLE_TREE_COL_MAP.is_real),
                   self.bus_keccak_permute_input) >>

\* InteractionAir::sends of MerkleTreeChip
MerkleSends(self) ==
    << Interaction([j \in 1 .. Len(Concat(MERKLE_TREE_COL_MAP.left_node
                                            \o MERKLE_TREE_COL_MAP.right_node)) |->
                        SingleMain(Concat(MERKLE_TREE_COL_MAP.left_node
                                            \o MERKLE_TREE_COL_MAP.right_node)[j])],
                   SingleMain(MERKLE_TREE_COL_MAP.is_real),
                   self.bus_keccak_permute_input) >>

\* InteractionAir::receives of MerkleTreeChip
MerkleReceives(self) ==
    << Interaction([j \in 1 .. Len(Concat(MERKLE_TREE_COL_MAP.output)) |->
                        SingleMain(Concat(MERKLE_TREE_COL_MAP.output)[j])],
                   SingleMain(MERKLE_TREE_COL_MAP.is_real),
                   self.bus_keccak_digest_output) >>

\* the chip with its two bus numbers and a main trace
MerkleTreeChip(main, bus_keccak_permute_input, bus_keccak_digest_output) ==
    LET self == [bus_keccak_permute_input |-> bus_keccak_permute_input,
                 bus_keccak_digest_output |-> bus_keccak_digest_output]
    IN  [main |-> main, preprocessed |-> None,
         sends |-> MerkleSends(self), receives |-> MerkleReceives(self),
         boundary |-> None,
         bus_keccak_permute_input |-> bus_keccak_permute_input,
         bus_keccak_digest_output |-> bus_keccak_digest_output]

\* rows is_real, left_node, right_node, output
MerkleRows ==
    {<<1, 1, 2, 3, 4, 2, 3>>, <<0, 1, 2, 3, 4, 2, 3>>,
     <<1, 3, 0, 1, 1, 4, 4>>, <<0, 0, 0, 0, 0, 0, 0>>}

MerkleBuses == {<<0, 1>>, <<1, 0>>}

InitMerkle ==
    /\ \E h \in 1 .. MaxHeight :
        chips \in {<<MerkleTreeChip(main, b[1], b[2])>> :
                    main \in MatricesOf(MerkleRows, NUM_MERKLE_TREE_COLS, h),
                    b \in MerkleBuses}
    /\ random_elements \in BusChallenges
    /\ perms = [c \in 1 .. Len(chips) |-> None]
    /\ rowres = {}
    /\ cumsum = "pending"
    /\ folder = IdleFolder
    /\ verif = IdleVerif
    /\ airck = IdleAirCheck
    /\ machine = IdleMachine
    /\ flat = IdleFlat /\ sumck = IdleSumCheck

NextMerkle == GeneratePermutationTrace \/ CheckConstraintsRow

SpecMerkle == InitMerkle /\ [][NextMerkle]_vars

\* the values a row holds in the columns of some groups, group by group
ColumnValues(row, groups) ==
    [j \in 1 .. Len(Concat(groups)) |-> row[Concat(groups)[j] + 1]]

\* the random linear combination of a message on a bus
MessageRlc(values, bus) ==
    EAdd(ESum([j \in 1 .. Len(values) |->
                <<FMul(EPow(random_elements[2], j - 1)[1], values[j]),
                  FMul(EPow(random_elements[2], j - 1)[2], values[j])>>]),
         BusTag(random_elements[1], bus))

\* the inverse the batch inversion leaves: zero stays zero
InverseOrZero(x) == IF x = Zero THEN Zero ELSE EInv(x)

\* what row n adds to the running sum of the permutation trace
RunningSumStep(perm, n) ==
    ESub(Last(RowSlice(perm, n)), IF n = 0 THEN Zero ELSE Last(RowSlice(perm, n - 1)))

\* C27: the Merkle-tree chip declares one Send, on bus_keccak_permute_input,
\* of the left_node columns followed by the right_node columns, and one
\* Receive, on bus_keccak_digest_output, of the output columns, both with the
\* main column is_real as multiplicity: row n adds
\* is_real * (1/rlc(left ++ right) - 1/rlc(output)) to the running sum, so a
\* row with is_real = 0 adds 0
C27_MerkleTreeInteractions ==
    \A c \in 1 .. Len(chips) :
        IsSome(perms[c]) =>
            LET chip == chips[c]
                map == MERKLE_TREE_COL_MAP
            IN  /\ Len(chip.sends) = 1 /\ Len(chip.receives) = 1
                /\ chip.sends[1].argument_index = chip.bus_keccak_permute_input
                /\ chip.receives[1].argument_index = chip.bus_keccak_digest_output
                /\ \A n \in RowsOf(chip) :
                    LET row == RowSlice(chip.main, n)
                        is_real == row[map.is_real + 1]
                        sent == ColumnValues(row, map.left_node \o map.right_node)
                        received == ColumnValues(row, map.output)
                        step == RunningSumStep(Unwrap(perms[c]), n)
                    IN  /\ Apply(chip.sends[1].count, <<>>, row) = is_real
                        /\ Apply(chip.receives[1].count, <<>>, row) = is_real
                        /\ [j \in 1 .. Len(chip.sends[1].fields) |->
                                Apply(chip.sends[1].fields[j], <<>>, row)] = sent
                        /\ [j \in 1 .. Len(chip.receives[1].fields) |->
                                Apply(chip.receives[1].fields[j], <<>>, row)] = received
                        /\ step = EScale(
                                ESub(InverseOrZero(MessageRlc(sent,
                                        chip.bus_keccak_permute_input)),
                                     InverseOrZero(MessageRlc(received,
                                        chip.bus_keccak_digest_output))),
                                is_real)
                        /\ is_real = 0 => step = Zero

\* a trace whose row 0 is real, with a left node that differs from its right
\* node, and adds to the running sum, and whose row 1 is not real
C27_Witness ==
    \E c \in 1 .. Len(chips) :
        /\ IsSome(perms[c])
        /\ Height(chips[c].main) = 2
        /\ chips[c].bus_keccak_permute_input = 1
        /\ RowSlice(chips[c].main, 0) = <<1, 1, 2, 3, 4, 2, 3>>
        /\ RowSlice(chips[c].main, 1) = <<0, 1, 2, 3, 4, 2, 3>>
        /\ RunningSumStep(Unwrap(perms[c]), 0) # Zero
        /\ RunningSumStep(Unwrap(perms[c]), 1) = Zero
        /\ RowSlice(Unwrap(perms[c]), 1)[1] # Zero

(***************************************************************************)
(* check_constraints_and_track (src/air-util/src/check_constraints.rs)     *)
(***************************************************************************)
\* Entry: <<variant, row, col>>; Public keeps its index in the second place
PreprocessedEntry(row, col) == <<"Preprocessed", row, col>>
MainEntry(row, col) == <<"Main", row, col>>
PermutationEntry(row, col) == <<"Permutation", row, col>>
PublicEntry(index) == <<"Public", index, 0>>
Untracked == <<"Untracked", 0, 0>>

\* the derived order of Entry: by variant, then by row, then by column
VariantRank(entry) ==
    CASE entry[1] = "Preprocessed" -> 0
      [] entry[1] = "Main" -> 1
      [] entry[1] = "Permutation" -> 2
      [] entry[1] = "Public" -> 3
      [] OTHER -> 4

EntryLess(a, b) ==
    \/ VariantRank(a) < VariantRank(b)
    \/ VariantRank(a) = VariantRank(b) /\ a[2] < b[2]
    \/ VariantRank(a) = VariantRank(b) /\ a[2] = b[2] /\ a[3] < b[3]

\* BTreeSet::into_iter().collect(): the entries in ascending order
RECURSIVE EntriesInOrder(_)
EntriesInOrder(S) ==
    IF S = {} THEN <<>>
    ELSE LET least == CHOOSE x \in S : \A y \in S \ {x} : EntryLess(x, y)
         IN  <<least>> \o EntriesInOrder(S \ {least})

\* TrackedFieldVariable::new(value, entry) and new_untracked(value)
TrackedFieldVariable(value, entry) == [value |-> value, entry |-> entry]

\* (local, next) of one trace on row i as tracked variables: the values of
\* row i and of row i_next, both tagged with row i
TrackedLocalNext(trace, variant, i, i_next) ==
    IF IsSome(trace)
    THEN [local |-> [j \in 1 .. Unwrap(trace).width |->
                        TrackedFieldVariable(RowSlice(Unwrap(trace), i)[j],
                                             <<variant, i, j - 1>>)],
          next |-> [j \in 1 .. Unwrap(trace).width |->
                        TrackedFieldVariable(RowSlice(Unwrap(trace), i_next)[j],
                                             <<variant, i, j - 1>>)]]
    ELSE [local |-> <<>>, next |-> <<>>]

\* the TrackingConstraintBuilder of row i, before the air is evaluated
TrackingConstraintBuilder(in, i) ==
    LET height == AirCheckHeight(in)
        i_next == IndexNext(i, height)
        sels == Selectors(i, height)
    IN  [row_index |-> i,
         preprocessed |-> TrackedLocalNext(in.preprocessed, "Preprocessed", i, i_next),
         main |-> TrackedLocalNext(in.main, "Main", i, i_next),
         permutation |-> TrackedLocalNext(in.perm, "Permutation", i, i_next),
         public_values |-> [j \in 1 .. Len(in.public_values) |->
                                TrackedFieldVariable(in.public_values[j], PublicEntry(j - 1))],
         perm_challenges |-> [j \in 1 .. 2 |->
                                TrackedFieldVariable(in.perm_challenges[j], Untracked)],
         cumulative_sum |-> TrackedFieldVariable(
                                IF IsSome(in.cumulative_sum) THEN Unwrap(in.cumulative_sum)
                                ELSE Zero, Untracked),
         is_first_row |-> sels.is_first_row,
         is_last_row |-> sels.is_last_row,
         is_transition |-> sels.is_transition]

\* chip.eval over tracked values: each asserted expression with the tags of
\* the variables it was computed from
TrackedChipEval(chip, builder) ==
    IF chip.boundary = None THEN <<>>
    ELSE LET b == Unwrap(chip.boundary)
         IN  << [value |-> FMul(builder.is_first_row,
                                FSub(builder.main.local[1].value, b.first)),
                 origin |-> {builder.main.local[1].entry}],
                [value |-> FMul(builder.is_last_row,
                                FSub(builder.main.local[1].value, b.last)),
                 origin |-> {builder.main.local[1].entry}] >>

\* the tracking builder's assert_zero: a nonzero value adds its tags
RECURSIVE TrackAssertions(_, _)
TrackAssertions(entries, asserted) ==
    IF asserted = <<>> THEN entries
    ELSE TrackAssertions(IF asserted[1].value # 0 THEN entries \cup asserted[1].origin
                         ELSE entries,
                         Tail(asserted))

\* air.eval(&mut builder): builder.entries after the evaluation
TrackRowEntries(in, builder) == TrackAssertions({}, TrackedChipEval(in.chip, builder))

\* a merge that keeps the entries of the latest row only
ExtendReplacing(indices, entries) == entries

\* indices.extend(builder.entries)
Extend(indices, entries) == indices \cup entries

RECURSIVE TrackIndicesFrom(_, _)
TrackIndicesFrom(in, i) ==
    IF i >= AirCheckHeight(in) THEN {}
    ELSE Extend(TrackRowEntries(in, TrackingConstraintBuilder(in, i)),
                TrackIndicesFrom(in, i + 1))

\* check_constraints_and_track with the rows taken in the order 0 .. height - 1
check_constraints_and_track(in) == EntriesInOrder(TrackIndicesFrom(in, 0))

TrackMainRows == {<<1, 1>>, <<3, 2>>}

\* the chips handed to the tracking check: boundary chips, and chips with a
\* preprocessed trace
TrackChips ==
    UNION {{Chip(main, None, ia, Boundary) :
                main \in MatricesOf(TrackMainRows, 2, h), ia \in BoundaryInteractions}
           \cup {Chip(main, Some(pre), ia, Boundary) :
                main \in MatricesOf(TrackMainRows, 2, h),
                pre \in MatricesOf(PreprocessedRows, 1, h),
                ia \in PairInteractions} : h \in 1 .. MaxHeight}

TrackChallenges == << <<1, 2>>, <<4, 0>> >>

\* a permutation trace whose first cell was changed
Tampered(perm) ==
    [perm EXCEPT !.values = [@ EXCEPT ![1] = EAdd(@, One)]]

TrackInputOf(chip, perm) ==
    [chip |-> chip, preprocessed |-> chip.preprocessed, main |-> Some(chip.main),
     perm |-> Some(perm), perm_challenges |-> TrackChallenges,
     cumulative_sum |-> Some(CumulativeSumOf(perm)),
     public_values |-> <<2, 3>>]

TrackInputs ==
    {TrackInputOf(chip, generate_permutation_trace(chip, chip.main, TrackChallenges)) :
        chip \in TrackChips}
    \cup {TrackInputOf(chip,
            Tampered(generate_permutation_trace(chip, chip.main, TrackChallenges))) :
        chip \in TrackChips}

InitTrack ==
    /\ chips = <<>>
    /\ random_elements = <<Zero, Zero>>
    /\ perms = <<>>
    /\ rowres = {}
    /\ cumsum = "pending"
    /\ folder = IdleFolder
    /\ verif = IdleVerif
    /\ \E in \in TrackInputs :
        airck = [input |-> Some(in), status |-> "called", rows |-> {},
                 indices |-> {}, result |-> <<>>]
    /\ machine = IdleMachine
    /\ flat = IdleFlat /\ sumck = IdleSumCheck

\* the height is computed and the permutation height asserted
TrackStart ==
    /\ airck.status = "called"
    /\ airck' = [airck EXCEPT !.status =
            IF AirCheckPermAssertion(Unwrap(airck.input)) THEN "running"
            ELSE "assert_failed"]
    /\ UNCHANGED <<chips, random_elements, perms, rowres, cumsum, folder, verif, machine, flat, sumck>>

\* one iteration of the loop over 0 .. height - 1, in any order: the row's
\* builder is made, the air evaluated and the entries merged
TrackRow ==
    /\ airck.status = "running"
    /\ \E i \in 0 .. (AirCheckHeight(Unwrap(airck.input)) - 1) :
        /\ ~ \E b \in airck.rows : b.row_index = i
        /\ LET builder == TrackingConstraintBuilder(Unwrap(airck.input), i)
               entries == TrackRowEntries(Unwrap(airck.input), builder)
           IN  airck' = [airck EXCEPT
                    !.rows = @ \cup {[builder EXCEPT !.row_index = i] @@
                                     [entries |-> entries,
                                      order |-> Cardinality(airck.rows)]},
                    !.indices = Extend(@, entries)]
    /\ UNCHANGED <<chips, random_elements, perms, rowres, cumsum, folder, verif, machine, flat, sumck>>

\* every row has been evaluated: indices.into_iter().collect()
TrackReturn ==
    /\ airck.status = "running"
    /\ \A i \in 0 .. (AirCheckHeight(Unwrap(airck.input)) - 1) :
        \E b \in airck.rows : b.row_index = i
    /\ airck' = [airck EXCEPT !.status = "returned",
                              !.result = EntriesInOrder(airck.indices)]
    /\ UNCHANGED <<chips, random_elements, perms, rowres, cumsum, folder, verif, machine, flat, sumck>>

NextTrack == TrackStart \/ TrackRow \/ TrackReturn

SpecTrack == InitTrack /\ [][NextTrack]_vars

\* the cell a variable of a view was read from
ViewTagsCells(trace, view, variant, i, i_next) ==
    IF IsSome(trace)
    THEN /\ Len(view.local) = Unwrap(trace).width /\ Len(view.next) = Unwrap(trace).width
         /\ \A j \in 1 .. Unwrap(trace).width :
            /\ view.local[j] = TrackedFieldVariable(MatrixRow(Unwrap(trace), i)[j],
                                                    <<variant, i, j - 1>>)
            /\ view.next[j] = TrackedFieldVariable(MatrixRow(Unwrap(trace), i_next)[j],
                                                   <<variant, i_next, j - 1>>)
    ELSE view.local = <<>> /\ view.next = <<>>

\* C21: every variable of a row's tracking builder carries the tag of the
\* cell it was read from: row i for the local row and row (i + 1) mod height
\* for the next row of the preprocessed, main and permutation traces, the
\* index for a public value, and Untracked for the permutation challenges
\* and the cumulative sum
C21_VariablesCarryTheirCells ==
    \A b \in airck.rows :
        LET in == AirInput
            i == b.row_index
            i_next == (i + 1) % AirCheckHeight(in)
        IN  /\ ViewTagsCells(in.preprocessed, b.preprocessed, "Preprocessed", i, i_next)
            /\ ViewTagsCells(in.main, b.main, "Main", i, i_next)
            /\ ViewTagsCells(in.perm, b.permutation, "Permutation", i, i_next)
            /\ \A j \in 1 .. Len(in.public_values) :
                b.public_values[j] =
                    TrackedFieldVariable(in.public_values[j], PublicEntry(j - 1))
            /\ \A j \in 1 .. 2 : b.perm_challenges[j].entry = Untracked
            /\ b.cumulative_sum.entry = Untracked

\* C22: on every row the tracking check evaluates the constraints
\* check_constraints evaluates, the permutation constraints included: a row
\* on which check_constraints finds a violated permutation constraint has
\* permutation cells among its entries, and a row with a violated local
\* constraint has main cells among them
C22_TrackingEvaluatesAllConstraints ==
    \A b \in airck.rows :
        LET in == AirInput
            debug == CheckRow(in.chip, Unwrap(in.main), Unwrap(in.perm),
                              in.perm_challenges, b.row_index)
        IN  /\ (\E j \in 1 .. Len(debug.local) : debug.local[j] # 0) =>
                    \E e \in b.entries : e[1] = "Main"
            /\ ~AllZero(debug.asserted) => \E e \in b.entries : e[1] = "Permutation"

\* C23: the vector check_constraints_and_track returns is the union of the
\* rows' entry sets over all rows 0 .. height - 1, in ascending order without
\* duplicates, whatever the order in which the rows ran and merged
C23_ResultIsOrderedUnionOfRows ==
    airck.status = "returned" =>
        /\ {b.row_index : b \in airck.rows} = 0 .. (AirCheckHeight(AirInput) - 1)
        /\ {airck.result[k] : k \in 1 .. Len(airck.result)}
                = UNION {b.entries : b \in airck.rows}
        /\ \A k \in 1 .. (Len(airck.result) - 1) :
                EntryLess(airck.result[k], airck.result[k + 1])
        /\ airck.result = check_constraints_and_track(AirInput)

\* the last row ran before row 0, both failed a local constraint, and the
\* vector lists the cell of row 0 before that of the last row
C23_Witness ==
    /\ airck.status = "returned"
    /\ Len(airck.result) = 2
    /\ airck.result = <<MainEntry(0, 0), MainEntry(1, 0)>>
    /\ \E b0, b1 \in airck.rows :
        /\ b0.row_index = 0 /\ b1.row_index = 1
        /\ b1.order < b0.order
        /\ b0.entries = {MainEntry(0, 0)} /\ b1.entries = {MainEntry(1, 0)}

====
